---- MODULE Spec2Model ----
(***************************************************************************)
(* Family Budget: the frequency normalisation of incomes and expenses     *)
(* (src/src/database.py) and the chart aggregation (src/src/api.py).      *)
(*                                                                         *)
(* Money.  An amount is an integer number of thousandths of a krone, so   *)
(* that amounts with more than two decimals exist; a value rounded to two *)
(* decimals is an integer number of hundredths.  The SQL totals are not   *)
(* rounded: they are integers in units of 1/12 of a thousandth.           *)
(* Python's round(x, 2) on a binary float resolves a decimal tie          *)
(* (x.xx5 exactly) by the representation error of x, which an integer     *)
(* model does not carry: 0.03/6 rounds to 0.01 and 0.15/6 to 0.02.  The   *)
(* direction is the state variable tie, fixed along a behaviour.          *)
(***************************************************************************)
EXTENDS Integers, Sequences, FiniteSets, TLC

VARIABLES
    tie,        \* how round() resolves a decimal tie: parity of the floor -> 0 (down) or 1 (up)
    obj,        \* the Income / Expense dataclass instance the properties are read from
    ret,        \* the values returned so far, by name of the call
    income,     \* table income: set of rows
    expenses,   \* table expenses: set of rows
    seq,        \* sqlite_sequence: the last AUTOINCREMENT id of each table
    op,         \* the last call or request: its name, its arguments and its outcome
    categories, \* table categories: set of rows
    accounts,   \* table accounts: set of rows
    users,      \* table users: set of rows
    tokens,     \* table password_reset_tokens: set of rows
    SESSIONS,   \* api.SESSIONS: session token -> user id
    attempts,   \* RateLimitMiddleware.attempts: client ip -> times of the recorded attempts
    feedback_attempts, \* feedback_attempts of api.py: client ip -> times of its submissions
    served,     \* history: client ip -> times of its POSTs to /budget/login passed on
    now,        \* the clock: seconds of UTC
    tz,         \* the time zone of the server: seconds its local time is ahead of UTC
    proc        \* the calls running side by side: process -> its position and locals

\* the state beyond the income and expenses tables
restOfState ==
    <<categories, accounts, users, tokens, SESSIONS, attempts, feedback_attempts, served,
      now, tz, proc>>

vars == <<tie, obj, ret, income, expenses, seq, op, restOfState>>

----------------------------------------------------------------------------
(* Bounds of the model *)

MaxAmount == 40
OtherAmount == 7
MaxSplitAmount == 25
MaxMonthsLen == 4
NumUsers == 2
MaxIncomeId == 2
MaxTotalsRows == 3
MaxCatalogExpenses == 1
MaxRequests == 2
MaxIsolationExpenses == 2
MaxRenameExpenses == 2
MaxSessions == 2
MaxRaceExpenses == 2
MaxSessionRequests == 4
NumProcesses == 2
MaxTokens == 2
MaxTicks == 2
MaxLoginTicks == 2
NumCategories == 7
TopExpensesLimit == 5
TopCategoriesLimit == 6

(* Amounts of tests/test_database.py, in thousandths *)
YearlyTestAmount == 1200500
QuarterlyTestAmount == 100000
SemiAnnualTestAmount == 6000600
MonthlyTestAmount == 1234560

----------------------------------------------------------------------------
(* Values *)

VALID_FREQUENCIES == {"monthly", "quarterly", "semi-annual", "yearly"}

\* one text outside the four literals
UnknownFrequencies == {"weekly"}

Frequencies == VALID_FREQUENCIES \cup UnknownFrequencies

TieRules == [0..1 -> 0..1]

\* thousandths per hundredth
Milli == 10

\* units of the SQL totals per thousandth
Twelfth == 12

None_months == [is_none |-> TRUE, items |-> <<>>]

List(s) == [is_none |-> FALSE, items |-> s]

Range(s) == {s[i] : i \in DOMAIN s}

\* round(num / den, 2) of Python, num in thousandths, the result in hundredths
Round2(num, den, t) ==
    LET d == den * Milli
        q == num \div d
        r == num % d
    IN  IF 2 * r < d THEN q
        ELSE IF 2 * r > d THEN q + 1
        ELSE q + t[q % 2]

----------------------------------------------------------------------------
(* The dataclasses *)

\* a quarter taken for four months
Income_divisors_quarterly_4(frequency) ==
    CASE frequency = "monthly" -> 1
      [] frequency = "quarterly" -> 4
      [] frequency = "semi-annual" -> 6
      [] frequency = "yearly" -> 12
      [] OTHER -> 1

\* divisors.get(self.frequency, 1) of Income.monthly_amount
Income_divisors(frequency) ==
    CASE frequency = "monthly" -> 1
      [] frequency = "quarterly" -> 3
      [] frequency = "semi-annual" -> 6
      [] frequency = "yearly" -> 12
      [] OTHER -> 1

Income_monthly_amount(self, t) ==
    Round2(self.amount, Income_divisors(self.frequency), t)

\* the divisors of monthly and yearly exchanged
Expense_divisors_swapped(frequency) ==
    CASE frequency = "monthly" -> 12
      [] frequency = "quarterly" -> 3
      [] frequency = "semi-annual" -> 6
      [] frequency = "yearly" -> 1
      [] OTHER -> 1

\* divisors.get(self.frequency, 1) of Expense.monthly_amount
Expense_divisors(frequency) ==
    CASE frequency = "monthly" -> 1
      [] frequency = "quarterly" -> 3
      [] frequency = "semi-annual" -> 6
      [] frequency = "yearly" -> 12
      [] OTHER -> 1

Expense_monthly_amount(self, t) ==
    Round2(self.amount, Expense_divisors(self.frequency), t)

\* the amount split over twelve months whatever the list holds
Expense_get_monthly_amounts_div_12(self, t) ==
    IF self.frequency = "monthly" \/ self.months.is_none
    THEN [raised |-> "", value |-> [m \in 1..12 |-> Expense_monthly_amount(self, t)]]
    ELSE [raised |-> "",
          value |-> [m \in (1..12) \cup Range(self.months.items) |->
                        IF m \in Range(self.months.items)
                        THEN Round2(self.amount, 12, t) ELSE 0]]

\* Expense.get_monthly_amounts: the dict returned, or the exception raised
Expense_get_monthly_amounts(self, t) ==
    IF self.frequency = "monthly" \/ self.months.is_none
    THEN [raised |-> "", value |-> [m \in 1..12 |-> Expense_monthly_amount(self, t)]]
    ELSE IF Len(self.months.items) = 0
    THEN [raised |-> "ZeroDivisionError", value |-> <<>>]
    ELSE LET per_month == Round2(self.amount, Len(self.months.items), t)
         IN  [raised |-> "",
              value |-> [m \in (1..12) \cup Range(self.months.items) |->
                            IF m \in Range(self.months.items) THEN per_month ELSE 0]]

----------------------------------------------------------------------------
(* The SQL totals *)

\* a row of another frequency left out of the sum
SqlMonthlyCase_else_0(amount, frequency) ==
    CASE frequency = "monthly" -> amount * Twelfth
      [] frequency = "quarterly" -> amount * (Twelfth \div 3)
      [] frequency = "semi-annual" -> amount * (Twelfth \div 6)
      [] frequency = "yearly" -> amount * (Twelfth \div 12)
      [] OTHER -> 0

\* CASE WHEN frequency = ... THEN amount / n ... ELSE amount END, in twelfths
SqlMonthlyCase(amount, frequency) ==
    CASE frequency = "monthly" -> amount * Twelfth
      [] frequency = "quarterly" -> amount * (Twelfth \div 3)
      [] frequency = "semi-annual" -> amount * (Twelfth \div 6)
      [] frequency = "yearly" -> amount * (Twelfth \div 12)
      [] OTHER -> amount * Twelfth

RECURSIVE SqlSum(_)
\* COALESCE(SUM(...), 0) over the selected rows
SqlSum(rows) ==
    IF rows = {} THEN 0
    ELSE LET r == CHOOSE x \in rows : TRUE
         IN  SqlMonthlyCase(r.amount, r.frequency) + SqlSum(rows \ {r})

get_total_income(user_id) ==
    SqlSum({r \in income : r.user_id = user_id})

get_total_monthly_expenses(user_id) ==
    SqlSum({r \in expenses : r.user_id = user_id})

----------------------------------------------------------------------------
(* Reading monthly_amount and the totals of one row *)

Amounts ==
    (0..MaxAmount) \cup {YearlyTestAmount, QuarterlyTestAmount, SemiAnnualTestAmount,
                          MonthlyTestAmount}

\* SQL NULL in the columns expenses.account and expenses.category_id, which the
\* INSERT of add_expense leaves without a category_id and, unless given, an account
NoAccount == "<NULL>"
NoCategoryId == 0

IncomeRow(id, user_id, person, amount, frequency) ==
    [id |-> id, user_id |-> user_id, person |-> person, amount |-> amount,
     frequency |-> frequency]

ExpenseRow(id, user_id, name, category, amount, frequency, months) ==
    [id |-> id, user_id |-> user_id, name |-> name, category |-> category,
     amount |-> amount, frequency |-> frequency, months |-> months,
     account |-> NoAccount, category_id |-> NoCategoryId]

Returned(name) == name \in DOMAIN ret

AccountRow(id, user_id, name) == [id |-> id, user_id |-> user_id, name |-> name]

NoCall == [name |-> "none"]

\* (name, icon) of the categories every user starts with
DEFAULT_CATEGORIES ==
    <<<<"Bolig", "house">>, <<"Forbrug", "zap">>, <<"Transport", "car">>,
      <<"Børn", "baby">>, <<"Mad", "utensils">>, <<"Forsikring", "shield">>,
      <<"Abonnementer", "tv">>, <<"Opsparing", "piggy-bank">>,
      <<"Andet", "more-horizontal">>>>

CategoryRow(id, user_id, name, icon) ==
    [id |-> id, user_id |-> user_id, name |-> name, icon |-> icon]

\* init_db: the default categories of the demo user 0, every other table empty
InitCategories ==
    {CategoryRow(i, 0, DEFAULT_CATEGORIES[i][1], DEFAULT_CATEGORIES[i][2]) :
       i \in DOMAIN DEFAULT_CATEGORIES}

InitRestOfState ==
    /\ categories = InitCategories
    /\ accounts = {}
    /\ users = {}
    /\ tokens = {}
    /\ SESSIONS = <<>>
    /\ attempts = <<>>
    /\ feedback_attempts = <<>>
    /\ served = <<>>
    /\ now = 0
    /\ tz = 0
    /\ proc = <<>>

InitMonthly ==
    /\ tie \in TieRules
    /\ obj \in [amount : Amounts, frequency : Frequencies, months : {None_months}]
    /\ ret = <<>>
    /\ income = {IncomeRow(1, 1, "Other", OtherAmount, "monthly"),
                 IncomeRow(2, 1, "Person", obj.amount, obj.frequency)}
    /\ expenses = {ExpenseRow(1, 1, "Other", "Bolig", OtherAmount, "monthly", None_months),
                   ExpenseRow(2, 1, "Expense", "Bolig", obj.amount, obj.frequency, None_months)}
    /\ seq = [income |-> 2, expenses |-> 2]
    /\ op = NoCall
    /\ InitRestOfState

ReadIncomeMonthlyAmount ==
    /\ ~Returned("Income.monthly_amount")
    /\ ret' = ret @@ ("Income.monthly_amount" :> Income_monthly_amount(obj, tie))
    /\ UNCHANGED <<tie, obj, income, expenses, seq, op, restOfState>>

ReadExpenseMonthlyAmount ==
    /\ ~Returned("Expense.monthly_amount")
    /\ ret' = ret @@ ("Expense.monthly_amount" :> Expense_monthly_amount(obj, tie))
    /\ UNCHANGED <<tie, obj, income, expenses, seq, op, restOfState>>

CallGetTotalIncome ==
    /\ ~Returned("get_total_income")
    /\ ret' = ret @@ ("get_total_income" :> get_total_income(1))
    /\ UNCHANGED <<tie, obj, income, expenses, seq, op, restOfState>>

CallGetTotalMonthlyExpenses ==
    /\ ~Returned("get_total_monthly_expenses")
    /\ ret' = ret @@ ("get_total_monthly_expenses" :> get_total_monthly_expenses(1))
    /\ UNCHANGED <<tie, obj, income, expenses, seq, op, restOfState>>

NextMonthly ==
    \/ ReadIncomeMonthlyAmount
    \/ ReadExpenseMonthlyAmount
    \/ CallGetTotalIncome
    \/ CallGetTotalMonthlyExpenses

SpecMonthly == InitMonthly /\ [][NextMonthly]_vars

MonthlyAmountReads == {"Income.monthly_amount", "Expense.monthly_amount"}

\* v hundredths is num thousandths divided by den and rounded to the nearest hundredth
IsRounded2(v, num, den) ==
    LET e == v * Milli * den - num
    IN  2 * e <= Milli * den /\ -2 * e <= Milli * den

\* the period count the specification gives a frequency
PeriodCount(frequency) ==
    CASE frequency = "monthly" -> 1
      [] frequency = "quarterly" -> 3
      [] frequency = "semi-annual" -> 6
      [] frequency = "yearly" -> 12

(* C1: for every amount >= 0 and each of the four frequencies, Income.monthly_amount
   and Expense.monthly_amount return the amount divided by 1, 3, 6, 12, rounded to
   2 decimals (1200.50 yearly is 100.04, 100.00 quarterly is 33.33, 6000.60
   semi-annual is 1000.10), and the two agree on the same amount and frequency. *)
C1_DivisorCorrectness ==
    obj.frequency \in VALID_FREQUENCIES =>
        /\ \A name \in MonthlyAmountReads :
              Returned(name) =>
                /\ IsRounded2(ret[name], obj.amount, PeriodCount(obj.frequency))
                /\ (obj.amount = YearlyTestAmount /\ obj.frequency = "yearly")
                      => ret[name] = 10004
                /\ (obj.amount = QuarterlyTestAmount /\ obj.frequency = "quarterly")
                      => ret[name] = 3333
                /\ (obj.amount = SemiAnnualTestAmount /\ obj.frequency = "semi-annual")
                      => ret[name] = 100010
        /\ (\A name \in MonthlyAmountReads : Returned(name))
              => ret["Income.monthly_amount"] = ret["Expense.monthly_amount"]

C1_Witness ==
    /\ obj.amount = YearlyTestAmount
    /\ obj.frequency = "yearly"
    /\ \A name \in MonthlyAmountReads : Returned(name) /\ ret[name] = 10004

(* C5: a frequency outside the four literals is divided by 1 and nothing raises:
   monthly_amount of the Income and of the Expense is the amount rounded to 2
   decimals, and get_total_income and get_total_monthly_expenses count the row
   with its full amount. *)
C5_UnknownFrequencyDivisorOne ==
    obj.frequency \notin VALID_FREQUENCIES =>
        /\ \A name \in MonthlyAmountReads :
              Returned(name) => IsRounded2(ret[name], obj.amount, 1)
        /\ \A name \in {"get_total_income", "get_total_monthly_expenses"} :
              Returned(name) => ret[name] = (OtherAmount + obj.amount) * Twelfth

C5_Witness ==
    /\ obj.frequency = "weekly"
    /\ obj.amount = MaxAmount
    /\ DOMAIN ret = MonthlyAmountReads \cup {"get_total_income", "get_total_monthly_expenses"}
    /\ ret["Income.monthly_amount"] * Milli = MaxAmount

(* C6 as claimed: for every amount x >= 0 the monthly amount of an income or expense
   with frequency monthly equals x itself. *)
C6_MonthlyIsIdentity ==
    obj.frequency = "monthly" =>
        \A name \in MonthlyAmountReads :
            Returned(name) => ret[name] * Milli = obj.amount

(* C6 amended: with frequency monthly the monthly amount is x rounded to 2 decimals,
   which is x itself when x has at most two decimals. *)
C6_MonthlyIsRoundedAmount ==
    obj.frequency = "monthly" =>
        \A name \in MonthlyAmountReads :
            Returned(name) =>
                /\ IsRounded2(ret[name], obj.amount, 1)
                /\ obj.amount % Milli = 0 => ret[name] * Milli = obj.amount

C6_Witness ==
    /\ obj.frequency = "monthly"
    /\ obj.amount = MonthlyTestAmount
    /\ \A name \in MonthlyAmountReads : Returned(name) /\ ret[name] = 123456

----------------------------------------------------------------------------
(* Calling get_monthly_amounts of one expense *)

\* the months a list may hold: the quarter ends, and 13, which is no month
MonthChoices == {3, 6, 9, 12, 13}

\* lists of months in non-decreasing order, repetitions included: the code writes
\* result[m] once per entry, so the order of the list does not reach the result
MonthLists ==
    {s \in UNION {[1..n -> MonthChoices] : n \in 0..MaxMonthsLen} :
        \A i \in DOMAIN s : i = 1 \/ s[i - 1] <= s[i]}

InitMonths ==
    /\ tie \in TieRules
    /\ obj \in [amount : 0..MaxSplitAmount, frequency : Frequencies,
                months : {None_months} \cup {List(s) : s \in MonthLists}]
    /\ ret = <<>>
    /\ income = {}
    /\ expenses = {}
    /\ seq = [income |-> 0, expenses |-> 0]
    /\ op = NoCall
    /\ InitRestOfState

CallGetMonthlyAmounts ==
    /\ ~Returned("Expense.get_monthly_amounts")
    /\ ret' = ret @@ ("Expense.get_monthly_amounts" :> Expense_get_monthly_amounts(obj, tie))
    /\ UNCHANGED <<tie, obj, income, expenses, seq, op, restOfState>>

NextMonths ==
    \/ ReadExpenseMonthlyAmount
    \/ CallGetMonthlyAmounts

SpecMonths == InitMonths /\ [][NextMonths]_vars

RECURSIVE SumOver(_, _)
SumOver(f, keys) ==
    IF keys = {} THEN 0
    ELSE LET k == CHOOSE x \in keys : TRUE
         IN  f[k] + SumOver(f, keys \ {k})

MonthlyAmounts == ret["Expense.get_monthly_amounts"]

(* C2 as claimed: whenever the frequency is monthly (whatever months holds) or months
   is absent or empty, get_monthly_amounts does not raise, every month 1..12 maps to
   monthly_amount, and the 12 values sum to 12 x monthly_amount. *)
C2_FullSpread ==
    (/\ Returned("Expense.get_monthly_amounts")
     /\ \/ obj.frequency = "monthly"
        \/ obj.months.is_none
        \/ obj.months.items = <<>>)
    => /\ MonthlyAmounts.raised = ""
       /\ DOMAIN MonthlyAmounts.value = 1..12
       /\ \A m \in 1..12 :
             /\ IsRounded2(MonthlyAmounts.value[m], obj.amount, Expense_divisors(obj.frequency))
             /\ Returned("Expense.monthly_amount")
                   => MonthlyAmounts.value[m] = ret["Expense.monthly_amount"]
       /\ Returned("Expense.monthly_amount")
             => SumOver(MonthlyAmounts.value, 1..12) = 12 * ret["Expense.monthly_amount"]

\* the entries of the list all name a month
MonthsInRange == \A m \in Range(obj.months.items) : m \in 1..12

SplitCase ==
    /\ Returned("Expense.get_monthly_amounts")
    /\ obj.frequency # "monthly"
    /\ ~obj.months.is_none
    /\ obj.months.items # <<>>

\* every month of the list maps to round(amount / len(months), 2), every other to 0
SplitValues ==
    /\ MonthlyAmounts.raised = ""
    /\ \A m \in DOMAIN MonthlyAmounts.value :
          IF m \in Range(obj.months.items)
          THEN IsRounded2(MonthlyAmounts.value[m], obj.amount, Len(obj.months.items))
          ELSE MonthlyAmounts.value[m] = 0
    /\ \A m, n \in Range(obj.months.items) :
          MonthlyAmounts.value[m] = MonthlyAmounts.value[n]

(* C3 as claimed: with a non-monthly frequency and a non-empty months set,
   get_monthly_amounts returns a map with exactly the keys 1..12 in which every month
   of the set maps to round(amount / len(months), 2) and every other month to 0. *)
C3_SplitOverMonths ==
    SplitCase => SplitValues /\ DOMAIN MonthlyAmounts.value = 1..12

(* C3 amended: the same when every entry of months lies in 1..12; an entry outside
   1..12 becomes a key of its own, so the keys are 1..12 and the entries of months. *)
C3_SplitOverMonthsInRange ==
    SplitCase =>
        /\ SplitValues
        /\ DOMAIN MonthlyAmounts.value = (1..12) \cup Range(obj.months.items)
        /\ MonthsInRange => DOMAIN MonthlyAmounts.value = 1..12

C3_Witness ==
    /\ SplitCase
    /\ obj.frequency = "semi-annual"
    /\ obj.months.items = <<3, 9>>
    /\ obj.amount = 20
    /\ MonthlyAmounts.value[3] = 1
    /\ MonthlyAmounts.value[9] = 1
    /\ MonthlyAmounts.value[4] = 0

\* distinct months in 1..12: 4 for quarterly, 2 for semi-annual, 1 for yearly
ValidMonths ==
    /\ ~obj.months.is_none
    /\ obj.frequency \in {"quarterly", "semi-annual", "yearly"}
    /\ MonthsInRange
    /\ Cardinality(Range(obj.months.items)) = Len(obj.months.items)
    /\ Len(obj.months.items) = 12 \div PeriodCount(obj.frequency)

(* C4: for every amount >= 0 and every valid months set, the 12 values of
   get_monthly_amounts sum to the amount up to a rounding error of at most
   len(months) x 0.005. *)
C4_DistributionSumsToTotal ==
    (Returned("Expense.get_monthly_amounts") /\ ValidMonths) =>
        /\ MonthlyAmounts.raised = ""
        /\ DOMAIN MonthlyAmounts.value = 1..12
        /\ LET e == SumOver(MonthlyAmounts.value, 1..12) * Milli - obj.amount
               bound == Len(obj.months.items) * (Milli \div 2)
           IN  e <= bound /\ -e <= bound

C4_Witness ==
    /\ Returned("Expense.get_monthly_amounts")
    /\ ValidMonths
    /\ obj.frequency = "quarterly"
    /\ obj.months.items = <<3, 6, 9, 12>>
    /\ obj.amount = 25
    /\ SumOver(MonthlyAmounts.value, 1..12) = 4

----------------------------------------------------------------------------
(* The income table *)

Users == 1..NumUsers

Persons == {"Alice", "Bob"}

\* the amount and frequency a call is given: two that the table takes, one it refuses
IncomeInputs ==
    {[amount |-> 0, frequency |-> "monthly"],
     [amount |-> OtherAmount, frequency |-> "yearly"],
     [amount |-> OtherAmount, frequency |-> "weekly"]}

\* CHECK(frequency IN (...)) and UNIQUE(user_id, person) of the income table
IncomeCheck(frequency) == frequency \in VALID_FREQUENCIES

IncomeConflict(user_id, person) ==
    {r \in income : r.user_id = user_id /\ r.person = person}

IncomeCall(name, user_id, person, amount, frequency, raised) ==
    [name |-> name, user_id |-> user_id, person |-> person, amount |-> amount,
     frequency |-> frequency, raised |-> raised]

\* nothing is rounded by the calls on the income table
InitIncome ==
    /\ tie = [parity \in 0..1 |-> parity]
    /\ obj = [amount |-> 0, frequency |-> "monthly", months |-> None_months]
    /\ ret = <<>>
    /\ income = {}
    /\ expenses = {}
    /\ seq = [income |-> 0, expenses |-> 0]
    /\ op = NoCall
    /\ InitRestOfState

\* INSERT INTO income: the row is refused by a constraint, or stored under a new id
add_income(user_id, person, amount, frequency) ==
    /\ IF IncomeCheck(frequency) /\ IncomeConflict(user_id, person) = {}
       THEN /\ seq.income < MaxIncomeId
            /\ income' = income \cup
                    {IncomeRow(seq.income + 1, user_id, person, amount, frequency)}
            /\ seq' = [seq EXCEPT !.income = @ + 1]
            /\ op' = IncomeCall("add_income", user_id, person, amount, frequency, "")
       ELSE /\ op' = IncomeCall("add_income", user_id, person, amount, frequency,
                                "IntegrityError")
            /\ UNCHANGED <<income, seq>>
    /\ UNCHANGED <<tie, obj, ret, expenses, restOfState>>

\* an update that leaves the row it met in place and stores a second one
update_income_insert_always(user_id, person, amount, frequency) ==
    /\ IF ~IncomeCheck(frequency)
       THEN /\ op' = IncomeCall("update_income", user_id, person, amount, frequency,
                                "IntegrityError")
            /\ UNCHANGED <<income, seq>>
       ELSE /\ seq.income < MaxIncomeId
            /\ income' = income \cup
                    {IncomeRow(seq.income + 1, user_id, person, amount, frequency)}
            /\ seq' = [seq EXCEPT !.income = @ + 1]
            /\ op' = IncomeCall("update_income", user_id, person, amount, frequency, "")
    /\ UNCHANGED <<tie, obj, ret, expenses, restOfState>>

\* INSERT ... ON CONFLICT(user_id, person) DO UPDATE SET amount, frequency
update_income(user_id, person, amount, frequency) ==
    /\ IF ~IncomeCheck(frequency)
       THEN /\ op' = IncomeCall("update_income", user_id, person, amount, frequency,
                                "IntegrityError")
            /\ UNCHANGED <<income, seq>>
       ELSE IF IncomeConflict(user_id, person) # {}
       THEN /\ income' = {IF r \in IncomeConflict(user_id, person)
                           THEN [r EXCEPT !.amount = amount, !.frequency = frequency]
                           ELSE r : r \in income}
            /\ op' = IncomeCall("update_income", user_id, person, amount, frequency, "")
            /\ UNCHANGED seq
       ELSE /\ seq.income < MaxIncomeId
            /\ income' = income \cup
                    {IncomeRow(seq.income + 1, user_id, person, amount, frequency)}
            /\ seq' = [seq EXCEPT !.income = @ + 1]
            /\ op' = IncomeCall("update_income", user_id, person, amount, frequency, "")
    /\ UNCHANGED <<tie, obj, ret, expenses, restOfState>>

\* DELETE FROM income WHERE user_id = ?
delete_all_income(user_id) ==
    /\ income' = {r \in income : r.user_id # user_id}
    /\ op' = [name |-> "delete_all_income", user_id |-> user_id, raised |-> ""]
    /\ UNCHANGED <<tie, obj, ret, expenses, seq, restOfState>>

NextIncome ==
    \/ \E u \in Users, p \in Persons, i \in IncomeInputs :
          add_income(u, p, i.amount, i.frequency)
    \/ \E u \in Users, p \in Persons, i \in IncomeInputs :
          update_income(u, p, i.amount, i.frequency)
    \/ \E u \in Users : delete_all_income(u)

SpecIncome == InitIncome /\ [][NextIncome]_vars

\* at most one income row per (user, person)
UniquePerPerson ==
    \A r1, r2 \in income :
        (r1.user_id = r2.user_id /\ r1.person = r2.person) => r1 = r2

\* a step of update_income that raised nothing: the row of (user, person) it met has
\* the new amount and frequency and nothing else differs, or one row was added
UpdateIncomeReplaces ==
    (op'.name = "update_income" /\ op'.raised = "") =>
        LET met == {r \in income : r.user_id = op'.user_id /\ r.person = op'.person}
            new == [user_id |-> op'.user_id, person |-> op'.person,
                    amount |-> op'.amount, frequency |-> op'.frequency]
        IN  IF met # {}
            THEN /\ Cardinality(income') = Cardinality(income)
                 /\ income' = (income \ met) \cup {[id |-> r.id] @@ new : r \in met}
            ELSE /\ Cardinality(income') = Cardinality(income) + 1
                 /\ income \subseteq income'
                 /\ \A r \in income' \ income : r = [id |-> r.id] @@ new

(* C10: after any sequence of add_income, update_income and delete_all_income there
   is at most one income row per (user, person); update_income on an existing
   (user, person) replaces the amount and frequency of that row and changes neither
   the number of rows nor any other row, and on a new person adds exactly one row. *)
C10_IncomeUniquePerPerson ==
    []UniquePerPerson /\ [][UpdateIncomeReplaces]_vars

\* update_income has met the row of id 1 (a row it adds has the id seq.income) and
\* left it with the new amount and frequency, the second row beside it
C10_Witness ==
    /\ op.name = "update_income"
    /\ op.raised = ""
    /\ seq.income = 2
    /\ Cardinality(income) = 2
    /\ \E r \in income :
          /\ r.id = 1 /\ r.user_id = op.user_id /\ r.person = op.person
          /\ r.amount = OtherAmount /\ r.frequency = "yearly"
          /\ r.amount = op.amount /\ r.frequency = op.frequency

----------------------------------------------------------------------------
(* Reading the expenses of a user *)

\* the texts of the model in the order of SQLite's BINARY collation
Collation ==
    <<"Abonnementer", "Alice", "Andet (samlet)", "Bob", "Bolig", "El", "Forbrug",
      "Forsikring", "Fritid", "Mad", "Opsparing", "Transport", "Udgift", "Vand">>

Rank(text) == CHOOSE i \in DOMAIN Collation : Collation[i] = text

\* ORDER BY category, name; rows equal in both come in the order of their ids
RowBefore(a, b) ==
    \/ Rank(a.category) < Rank(b.category)
    \/ /\ a.category = b.category
       /\ \/ Rank(a.name) < Rank(b.name)
          \/ a.name = b.name /\ a.id < b.id

RECURSIVE OrderBy(_)
OrderBy(rows) ==
    IF rows = {} THEN <<>>
    ELSE LET first == CHOOSE r \in rows : \A o \in rows \ {r} : RowBefore(r, o)
         IN  <<first>> \o OrderBy(rows \ {first})

\* SELECT ... FROM expenses WHERE user_id = ? ORDER BY category, name
get_all_expenses(user_id) ==
    OrderBy({r \in expenses : r.user_id = user_id})

(* A dict: the sequence of its items in insertion order, the keys distinct *)
HasKey(d, k) == \E i \in DOMAIN d : d[i].key = k

DictGet(d, k) == d[CHOOSE i \in DOMAIN d : d[i].key = k].value

DictSet(d, k, v) ==
    IF HasKey(d, k)
    THEN [i \in DOMAIN d |-> IF d[i].key = k THEN [key |-> k, value |-> v] ELSE d[i]]
    ELSE Append(d, [key |-> k, value |-> v])

(* A float that is the sum of amounts of 2 decimals: the double nearest to
   hundredths / 100, plus err times 2^-54 *)
Float(hundredths) == [hundredths |-> hundredths, err |-> 0]

\* a + b falls err times 2^-54 off the double nearest to its decimal sum, for
\* <<a.hundredths, a.err, b.hundredths, err>>, b a sum with no error; an IEEE 754
\* binary64 sum of at most MaxTotalsRows + 1 of the amounts 0.10, 0.20 and 0.30, and
\* every sum of amounts in whole kroner, not listed here is the nearest double itself
Binary64Inexact ==
    {<<10, 0, 20, 1>>, <<20, 0, 10, 1>>, <<30, 1, 30, 2>>, <<40, 0, 20, 2>>,
     <<60, 0, 30, -2>>, <<60, 2, 10, 2>>, <<60, 2, 30, 2>>, <<70, 0, 10, -2>>,
     <<70, 0, 20, -2>>, <<90, -2, 10, -2>>, <<90, -2, 20, -4>>}

FloatAdd(a, b) ==
    LET met == {e \in Binary64Inexact :
                  e[1] = a.hundredths /\ e[2] = a.err /\ e[3] = b.hundredths /\ b.err = 0}
    IN  [hundredths |-> a.hundredths + b.hundredths,
         err |-> IF met = {} THEN 0 ELSE (CHOOSE e \in met : TRUE)[4]]

\* the order of two floats is the order of these numbers
FloatOrder(a) == a.hundredths * 64 + a.err

RECURSIVE CategoryTotalsLoop(_, _, _)
\* for exp in expenses: totals[exp.category] += exp.monthly_amount, from 0
CategoryTotalsLoop(exps, totals, t) ==
    IF exps = <<>> THEN totals
    ELSE LET exp == Head(exps)
             started == IF HasKey(totals, exp.category) THEN totals
                        ELSE DictSet(totals, exp.category, Float(0))
         IN  CategoryTotalsLoop(Tail(exps),
                 DictSet(started, exp.category,
                         FloatAdd(DictGet(started, exp.category),
                                  Float(Expense_monthly_amount(exp, t)))),
                 t)

get_category_totals(user_id, t) ==
    CategoryTotalsLoop(get_all_expenses(user_id), <<>>, t)

----------------------------------------------------------------------------
(* Calling get_category_totals on a table of a few expenses *)

\* the amount and frequency of an expense: 0.10, 0.20 and 0.30 a month
TotalsInputs ==
    {[amount |-> 100, frequency |-> "monthly"],
     [amount |-> 200, frequency |-> "monthly"],
     [amount |-> 900, frequency |-> "quarterly"]}

TotalsCategories == {"Mad", "Bolig"}

\* the rows of user 1 in the order they were inserted, the id of a row its place
TotalsInserts ==
    UNION {[1..n -> [category : TotalsCategories, input : TotalsInputs]] :
             n \in 0..MaxTotalsRows}

InitTotals ==
    /\ tie = [parity \in 0..1 |-> parity]
    /\ obj = [amount |-> 0, frequency |-> "monthly", months |-> None_months]
    /\ ret = <<>>
    /\ income = {}
    /\ \E ins \in TotalsInserts, others \in SUBSET {"Mad"} :
          /\ expenses =
                {ExpenseRow(i, 1, "Udgift", ins[i].category, ins[i].input.amount,
                            ins[i].input.frequency, None_months) : i \in DOMAIN ins}
                \cup {ExpenseRow(Len(ins) + 1, 2, "Udgift", c, OtherAmount, "monthly",
                                 None_months) : c \in others}
          /\ seq = [income |-> 0, expenses |-> Len(ins) + Cardinality(others)]
    /\ op = NoCall
    /\ InitRestOfState

CallGetCategoryTotals ==
    /\ ~Returned("get_category_totals")
    /\ ret' = ret @@ ("get_category_totals" :> get_category_totals(1, tie))
    /\ UNCHANGED <<tie, obj, income, expenses, seq, op, restOfState>>

NextTotals == CallGetCategoryTotals

SpecTotals == InitTotals /\ [][NextTotals]_vars

Keys(d) == {d[i].key : i \in DOMAIN d}

\* a dict as the map it is, the order of insertion forgotten
AsMap(d) == [k \in Keys(d) |-> DictGet(d, k)]

Orderings(n) == {p \in [1..n -> 1..n] : \A i, j \in 1..n : p[i] = p[j] => i = j}

RECURSIVE SumMonthlyAmounts(_, _)
SumMonthlyAmounts(rows, t) ==
    IF rows = {} THEN 0
    ELSE LET r == CHOOSE x \in rows : TRUE
         IN  Expense_monthly_amount(r, t) + SumMonthlyAmounts(rows \ {r}, t)

(* C7: get_category_totals maps each distinct category among the expenses of the user
   to the sum of monthly_amount over exactly the expenses of that category, no label
   missing and none extra, and the map is the same for every permutation of the list
   of expenses. *)
C7_CategoryTotals ==
    Returned("get_category_totals") =>
        LET totals == ret["get_category_totals"]
            mine == {r \in expenses : r.user_id = 1}
            list == get_all_expenses(1)
        IN  /\ \A i, j \in DOMAIN totals : totals[i].key = totals[j].key => i = j
            /\ Keys(totals) = {r.category : r \in mine}
            /\ \A c \in Keys(totals) :
                  DictGet(totals, c).hundredths =
                      SumMonthlyAmounts({r \in mine : r.category = c}, tie)
            /\ \A p \in Orderings(Len(list)) :
                  AsMap(CategoryTotalsLoop([i \in DOMAIN list |-> list[p[i]]], <<>>, tie))
                      = AsMap(totals)

----------------------------------------------------------------------------
(* GET /api/chart-data of a logged-in user *)

RECURSIVE SortedReverse_reversed(_)
\* equal keys come out in the reverse of their input order: sorted(...)[::-1]
SortedReverse_reversed(pairs) ==
    IF pairs = <<>> THEN <<>>
    ELSE LET front == SortedReverse_reversed(SubSeq(pairs, 1, Len(pairs) - 1))
             x == pairs[Len(pairs)]
             n == Cardinality({i \in DOMAIN front : front[i].key > x.key})
         IN  SubSeq(front, 1, n) \o <<x>> \o SubSeq(front, n + 1, Len(front))

RECURSIVE SortedReverse(_)
\* sorted(items, key=..., reverse=True): descending by key, and stable, so an item
\* goes behind every earlier item whose key is at least its own
SortedReverse(pairs) ==
    IF pairs = <<>> THEN <<>>
    ELSE LET front == SortedReverse(SubSeq(pairs, 1, Len(pairs) - 1))
             x == pairs[Len(pairs)]
             n == Cardinality({i \in DOMAIN front : front[i].key >= x.key})
         IN  SubSeq(front, 1, n) \o <<x>> \o SubSeq(front, n + 1, Len(front))

Min(a, b) == IF a < b THEN a ELSE b

\* sum(...): from 0, the values added one after the other
RECURSIVE SumValues(_)
SumValues(items) ==
    IF items = <<>> THEN Float(0)
    ELSE FloatAdd(SumValues(SubSeq(items, 1, Len(items) - 1)), items[Len(items)].value)

\* the items of a dict put into a new dict one after the other
RECURSIVE DictOf(_)
DictOf(items) ==
    IF items = <<>> THEN <<>>
    ELSE DictSet(DictOf(SubSeq(items, 1, Len(items) - 1)),
                 items[Len(items)].key, items[Len(items)].value)

GroupCategories(category_totals) ==
    IF Len(category_totals) > TopCategoriesLimit
    THEN LET sorted_cats ==
                 SortedReverse([i \in DOMAIN category_totals |->
                     [key |-> FloatOrder(category_totals[i].value), item |-> category_totals[i]]])
             top_cats == DictOf([i \in 1..TopCategoriesLimit |-> sorted_cats[i].item])
             other_total ==
                 SumValues([i \in 1..(Len(sorted_cats) - TopCategoriesLimit) |->
                               sorted_cats[TopCategoriesLimit + i].item])
         IN  IF FloatOrder(other_total) > 0
             THEN DictSet(top_cats, "Andet (samlet)", other_total)
             ELSE top_cats
    ELSE category_totals

chart_data(user_id, t) ==
    LET expenses_list == get_all_expenses(user_id)
        category_totals == get_category_totals(user_id, t)
        sorted_expenses ==
            SortedReverse([i \in DOMAIN expenses_list |->
                [key |-> Expense_monthly_amount(expenses_list[i], t),
                 item |-> expenses_list[i]]])
        top_expenses ==
            [i \in 1..Min(TopExpensesLimit, Len(sorted_expenses)) |->
                [name |-> sorted_expenses[i].item.name,
                 amount |-> sorted_expenses[i].key,
                 category |-> sorted_expenses[i].item.category]]
    IN  [category_totals |-> GroupCategories(category_totals),
         total_income |-> get_total_income(user_id),
         total_expenses |-> get_total_monthly_expenses(user_id),
         top_expenses |-> top_expenses]

\* the categories of the table, in the order their expenses were inserted
ChartCategories ==
    <<"Transport", "Mad", "Andet (samlet)", "Bolig", "Forsikring", "Abonnementer",
      "Opsparing", "Forbrug">>

\* the amount and frequency of an expense: 0.00, 1000.00 and 2000.00 a month
ChartInputs ==
    {[amount |-> 0, frequency |-> "monthly"],
     [amount |-> 1000000, frequency |-> "monthly"],
     [amount |-> 24000000, frequency |-> "yearly"]}

\* at most one expense in each category
ChartTables == UNION {[present -> ChartInputs] : present \in SUBSET (1..NumCategories)}

InitChart ==
    /\ tie = [parity \in 0..1 |-> parity]
    /\ obj = [amount |-> 0, frequency |-> "monthly", months |-> None_months]
    /\ ret = <<>>
    /\ income = {IncomeRow(1, 1, "Alice", OtherAmount, "monthly")}
    /\ \E table \in ChartTables :
          expenses =
              {ExpenseRow(i, 1, "Udgift", ChartCategories[i], table[i].amount,
                          table[i].frequency, None_months) :
                 i \in DOMAIN table}
    /\ seq = [income |-> 1, expenses |-> NumCategories]
    /\ op = NoCall
    /\ InitRestOfState

CallChartData ==
    /\ ~Returned("chart_data")
    /\ ret' = ret @@ ("chart_data" :> chart_data(1, tie))
    /\ UNCHANGED <<tie, obj, income, expenses, seq, op, restOfState>>

NextChart == CallChartData

SpecChart == InitChart /\ [][NextChart]_vars

\* what top_expenses shows of an expense
TopEntry(exp) ==
    [name |-> exp.name, amount |-> Expense_monthly_amount(exp, tie), category |-> exp.category]

(* C8: top_expenses holds min(5, number of expenses) entries, each an expense of the
   user, in non-increasing order of monthly amount; no omitted expense has a strictly
   larger monthly amount than an included one; expenses with equal monthly amounts
   appear in the order of the input list. With fewer than 5 expenses all of them are
   there, and with none the list is empty. *)
C8_TopExpenses ==
    Returned("chart_data") =>
        LET top == ret["chart_data"].top_expenses
            list == get_all_expenses(1)
            Place(j) == CHOOSE i \in DOMAIN list : TopEntry(list[i]) = top[j]
            included == {Place(j) : j \in DOMAIN top}
        IN  /\ Len(top) = Min(5, Len(list))
            /\ Len(list) < 5 => Len(top) = Len(list)
            /\ Len(list) = 0 => top = <<>>
            /\ \A j \in DOMAIN top : \E i \in DOMAIN list : TopEntry(list[i]) = top[j]
            /\ Cardinality(included) = Len(top)
            /\ \A j, k \in DOMAIN top :
                  j < k => /\ top[j].amount >= top[k].amount
                           /\ top[j].amount = top[k].amount => Place(j) < Place(k)
            /\ \A i \in DOMAIN list \ included :
                  \A j \in DOMAIN top : Expense_monthly_amount(list[i], tie) <= top[j].amount

\* seven expenses, the largest first, behind it four equal ones in the order of the
\* list, and two more equal ones left out
C8_Witness ==
    /\ Returned("chart_data")
    /\ Cardinality(expenses) = 7
    /\ LET top == ret["chart_data"].top_expenses
       IN  /\ Len(top) = 5
           /\ [j \in 1..5 |-> top[j].amount] = <<200000, 100000, 100000, 100000, 100000>>
           /\ [j \in 1..5 |-> top[j].category] =
                  <<"Mad", "Abonnementer", "Andet (samlet)", "Bolig", "Forsikring">>

RECURSIVE SumHundredths(_, _)
SumHundredths(d, keys) ==
    IF keys = {} THEN 0
    ELSE LET k == CHOOSE x \in keys : TRUE
         IN  DictGet(d, k).hundredths + SumHundredths(d, keys \ {k})

(* C9: with 6 or fewer categories chart_data returns the category totals unchanged,
   with no entry made up; with more than 6, exactly the 6 categories of the highest
   totals are kept, their totals unchanged, and one entry "Andet (samlet)" holding
   the sum of all the other categories is added only if that sum is above 0, so that
   there are never more than 7 entries. *)
C9_GroupSmallCategories ==
    Returned("chart_data") =>
        LET totals == get_category_totals(1, tie)
            shown == ret["chart_data"].category_totals
        IN  /\ Len(shown) <= 7
            /\ Len(totals) <= 6 => shown = totals
            /\ Len(totals) > 6 =>
                  \E kept \in SUBSET Keys(totals) :
                      LET rest == SumHundredths(totals, Keys(totals) \ kept)
                      IN  /\ Cardinality(kept) = 6
                          /\ \A k \in kept : \A o \in Keys(totals) \ kept :
                                FloatOrder(DictGet(totals, k)) >= FloatOrder(DictGet(totals, o))
                          /\ \A k \in kept :
                                HasKey(shown, k) /\ DictGet(shown, k) = DictGet(totals, k)
                          /\ IF rest > 0
                             THEN /\ Len(shown) = 7
                                  /\ Keys(shown) = kept \cup {"Andet (samlet)"}
                                  /\ DictGet(shown, "Andet (samlet)") = Float(rest)
                             ELSE /\ Len(shown) = 6
                                  /\ Keys(shown) = kept

----------------------------------------------------------------------------
(* Deleting categories and accounts *)

\* SELECT COUNT(*) FROM expenses WHERE (category_id = ? OR category = ?) AND user_id = ?
CategoryInUse(category_id, category_name, user_id) ==
    {r \in expenses : (r.category_id = category_id \/ r.category = category_name)
                       /\ r.user_id = user_id}

\* the usage counted by the name of the category alone
delete_category_by_name_only(category_id, user_id) ==
    LET row == {c \in categories : c.id = category_id /\ c.user_id = user_id}
    IN  /\ IF row = {} \/ {r \in expenses : r.category = (CHOOSE c \in row : TRUE).name
                                               /\ r.user_id = user_id} # {}
           THEN /\ op' = [name |-> "delete_category", id |-> category_id,
                          user_id |-> user_id, returned |-> FALSE]
                /\ UNCHANGED categories
           ELSE /\ categories' = categories \ row
                /\ op' = [name |-> "delete_category", id |-> category_id,
                          user_id |-> user_id, returned |-> TRUE]
        /\ UNCHANGED <<tie, obj, ret, income, expenses, seq, accounts, users, tokens,
                       SESSIONS, attempts, feedback_attempts, served, tz, now, proc>>

delete_category(category_id, user_id) ==
    LET row == {c \in categories : c.id = category_id /\ c.user_id = user_id}
    IN  /\ IF row = {}
           THEN /\ op' = [name |-> "delete_category", id |-> category_id,
                          user_id |-> user_id, returned |-> FALSE]
                /\ UNCHANGED categories
           ELSE LET category_name == (CHOOSE c \in row : TRUE).name
                    count == Cardinality(CategoryInUse(category_id, category_name, user_id))
                IN  IF count > 0
                    THEN /\ op' = [name |-> "delete_category", id |-> category_id,
                                   user_id |-> user_id, returned |-> FALSE]
                         /\ UNCHANGED categories
                    ELSE /\ categories' =
                                {c \in categories :
                                   ~(c.id = category_id /\ c.user_id = user_id)}
                         /\ op' = [name |-> "delete_category", id |-> category_id,
                                   user_id |-> user_id, returned |-> TRUE]
        /\ UNCHANGED <<tie, obj, ret, income, expenses, seq, accounts, users, tokens,
                       SESSIONS, attempts, feedback_attempts, served, tz, now, proc>>

delete_account(account_id, user_id) ==
    LET row == {a \in accounts : a.id = account_id /\ a.user_id = user_id}
    IN  /\ IF row = {}
           THEN /\ op' = [name |-> "delete_account", id |-> account_id,
                          user_id |-> user_id, returned |-> FALSE]
                /\ UNCHANGED accounts
           ELSE LET account_name == (CHOOSE a \in row : TRUE).name
                    count == Cardinality({r \in expenses : r.account = account_name
                                                            /\ r.user_id = user_id})
                IN  IF count > 0
                    THEN /\ op' = [name |-> "delete_account", id |-> account_id,
                                   user_id |-> user_id, returned |-> FALSE]
                         /\ UNCHANGED accounts
                    ELSE /\ accounts' =
                                {a \in accounts :
                                   ~(a.id = account_id /\ a.user_id = user_id)}
                         /\ op' = [name |-> "delete_account", id |-> account_id,
                                   user_id |-> user_id, returned |-> TRUE]
        /\ UNCHANGED <<tie, obj, ret, income, expenses, seq, categories, users, tokens,
                       SESSIONS, attempts, feedback_attempts, served, tz, now, proc>>

(* The tables the calls are made on: categories and accounts of two users and a few
   expenses, as add_category, add_account, add_expense, update_expense and
   migrate_user_categories leave them *)
CatalogOwners == {1, 2}

\* the categories the users may have added, the id of a category its place after
\* the default categories of the demo user
CatalogSlots ==
    <<[user_id |-> 1, name |-> "Bolig"], [user_id |-> 1, name |-> "Mad"],
      [user_id |-> 2, name |-> "Bolig"], [user_id |-> 2, name |-> "Mad"]>>

CatalogCategories(present) ==
    {CategoryRow(Len(DEFAULT_CATEGORIES) + i, CatalogSlots[i].user_id,
                 CatalogSlots[i].name, "tag") : i \in present}

\* an expense: its text category, and the category_id migrate_user_categories gave
\* it, which is a category of its user
CatalogExpenses(cats) ==
    {e \in [user_id : CatalogOwners, category : {"Bolig", "Mad"},
            category_id : {NoCategoryId} \cup {c.id : c \in cats},
            account : {NoAccount, "Budget"}] :
        e.category_id # NoCategoryId =>
            \E c \in cats : c.id = e.category_id /\ c.user_id = e.user_id}

InitCatalog ==
    /\ tie = [parity \in 0..1 |-> parity]
    /\ obj = [amount |-> 0, frequency |-> "monthly", months |-> None_months]
    /\ ret = <<>>
    /\ income = {}
    /\ \E present \in SUBSET DOMAIN CatalogSlots, holders \in SUBSET CatalogOwners :
          /\ categories = InitCategories \cup CatalogCategories(present)
          /\ accounts = {AccountRow(u, u, "Budget") : u \in holders}
          /\ \E n \in 0..MaxCatalogExpenses :
                \E list \in [1..n -> CatalogExpenses(CatalogCategories(present))] :
                   expenses =
                       {[ExpenseRow(i, list[i].user_id, "Udgift", list[i].category,
                                    OtherAmount, "monthly", None_months)
                           EXCEPT !.account = list[i].account,
                                  !.category_id = list[i].category_id] : i \in 1..n}
    /\ seq = [income |-> 0, expenses |-> MaxCatalogExpenses,
              categories |-> Len(DEFAULT_CATEGORIES) + Len(CatalogSlots),
              accounts |-> Cardinality(CatalogOwners)]
    /\ op = NoCall
    /\ users = {}
    /\ tokens = {}
    /\ SESSIONS = <<>>
    /\ attempts = <<>>
    /\ feedback_attempts = <<>>
    /\ served = <<>>
    /\ now = 0
    /\ tz = 0
    /\ proc = <<>>

\* one call on each of the tables
NextCatalog ==
    \/ /\ op = NoCall
       /\ \E id \in Len(DEFAULT_CATEGORIES)..(Len(DEFAULT_CATEGORIES) + Len(CatalogSlots)),
             u \in CatalogOwners : delete_category(id, u)
    \/ /\ op = NoCall
       /\ \E id \in 1..Cardinality(CatalogOwners), u \in CatalogOwners :
             delete_account(id, u)

SpecCatalog == InitCatalog /\ [][NextCatalog]_vars

\* delete_category answers True exactly for a category of the user no expense of
\* the user uses, and removes that row and nothing else
DeleteCategoryRule ==
    op'.name = "delete_category" =>
        LET row == {c \in categories : c.id = op'.id /\ c.user_id = op'.user_id}
            free == /\ row # {}
                    /\ \A r \in expenses :
                          r.user_id = op'.user_id =>
                              /\ r.category_id # op'.id
                              /\ \A c \in row : r.category # c.name
        IN  /\ op'.returned = free
            /\ categories' = IF free THEN categories \ row ELSE categories
            /\ UNCHANGED <<accounts, expenses>>

DeleteAccountRule ==
    op'.name = "delete_account" =>
        LET row == {a \in accounts : a.id = op'.id /\ a.user_id = op'.user_id}
            free == /\ row # {}
                    /\ \A r \in expenses :
                          r.user_id = op'.user_id => \A a \in row : r.account # a.name
        IN  /\ op'.returned = free
            /\ accounts' = IF free THEN accounts \ row ELSE accounts
            /\ UNCHANGED <<categories, expenses>>

(* C11: delete_category(c, u) and delete_account(a, u) delete the record and return
   True only when it is owned by u and no expense of u uses it (a category by its
   name or by category_id, an account by its name); in every other case they return
   False and leave categories, accounts and expenses unchanged. *)
C11_DeleteOnlyUnused == [][DeleteCategoryRule /\ DeleteAccountRule]_vars

\* a category of user 1 deleted while an expense of user 2 carries the same name
C11_Witness ==
    /\ op.name = "delete_category" /\ op.returned /\ op.user_id = 1
    /\ \A c \in categories : c.id # op.id
    /\ \E r \in expenses : r.user_id = 2 /\ r.category = "Bolig"
    /\ op.id = Len(DEFAULT_CATEGORIES) + 1

----------------------------------------------------------------------------
(* The HTTP layer: sessions *)

\* sha256 of a session token: one hash for each token
hash_token(token) == <<"sha256", token>>

DEMO_SESSION_ID == "demo"

\* request.cookies.get("budget_session") of a request without the cookie
NoCookie == ""

\* None, where a user id is expected
NoUser == -1

\* a check that takes every cookie that is not empty for a session
check_auth_any_cookie(cookie) == cookie # NoCookie

check_auth(cookie) ==
    IF cookie = NoCookie THEN FALSE
    ELSE IF cookie = DEMO_SESSION_ID THEN TRUE
    ELSE hash_token(cookie) \in DOMAIN SESSIONS

get_user_id(cookie) ==
    IF cookie = NoCookie \/ cookie = DEMO_SESSION_ID THEN NoUser
    ELSE IF hash_token(cookie) \in DOMAIN SESSIONS THEN SESSIONS[hash_token(cookie)]
    ELSE NoUser

\* read-only demo mode switched off
is_demo_mode_never(cookie) == FALSE

is_demo_mode(cookie) == cookie = DEMO_SESSION_ID

----------------------------------------------------------------------------
(* The database calls of the handlers, as functions of the table *)

\* months_json = json.dumps(months) if months else None, read back by json.loads
StoredMonths(months) ==
    IF months.is_none \/ months.items = <<>> THEN None_months ELSE months

\* db.add_expense: INSERT INTO expenses, refused by CHECK(frequency IN (...)) and
\* by user_id NOT NULL
db_add_expense(table, last_id, user_id, name, category, amount, frequency, account, months) ==
    IF frequency \notin VALID_FREQUENCIES \/ user_id = NoUser
    THEN [raised |-> "IntegrityError", expenses |-> table, last_id |-> last_id]
    ELSE [raised |-> "",
          expenses |-> table \cup
              {[ExpenseRow(last_id + 1, user_id, name, category, amount, frequency,
                           StoredMonths(months)) EXCEPT !.account = account]},
          last_id |-> last_id + 1]

\* db.update_expense: UPDATE expenses SET ... WHERE id = ? AND user_id = ?
db_update_expense(table, expense_id, user_id, name, category, amount, frequency, account, months) ==
    IF frequency \notin VALID_FREQUENCIES
       /\ \E r \in table : r.id = expense_id /\ r.user_id = user_id
    THEN [raised |-> "IntegrityError", expenses |-> table]
    ELSE [raised |-> "",
          expenses |->
              {IF r.id = expense_id /\ r.user_id = user_id
               THEN [r EXCEPT !.name = name, !.category = category, !.amount = amount,
                              !.frequency = frequency, !.account = account,
                              !.months = StoredMonths(months)]
               ELSE r : r \in table}]

\* a DELETE that asks for the id alone
db_delete_expense_by_id_only(table, expense_id, user_id) ==
    {r \in table : r.id # expense_id}

\* db.delete_expense: DELETE FROM expenses WHERE id = ? AND user_id = ?
db_delete_expense(table, expense_id, user_id) ==
    {r \in table : ~(r.id = expense_id /\ r.user_id = user_id)}

\* db.add_income: INSERT INTO income, refused by CHECK(frequency IN (...)), by
\* UNIQUE(user_id, person) and by user_id NOT NULL
db_add_income(table, last_id, user_id, person, amount, frequency) ==
    IF frequency \notin VALID_FREQUENCIES \/ user_id = NoUser
       \/ \E r \in table : r.user_id = user_id /\ r.person = person
    THEN [raised |-> "IntegrityError", income |-> table, last_id |-> last_id]
    ELSE [raised |-> "",
          income |-> table \cup {IncomeRow(last_id + 1, user_id, person, amount, frequency)},
          last_id |-> last_id + 1]

\* for name, amount, frequency in incomes_to_save: db.add_income(...), each call
\* committed, up to the first that raises
RECURSIVE SaveIncomes(_, _, _, _)
SaveIncomes(table, last_id, user_id, incomes_to_save) ==
    IF incomes_to_save = <<>>
    THEN [raised |-> "", income |-> table, last_id |-> last_id]
    ELSE LET first == Head(incomes_to_save)
             added == db_add_income(table, last_id, user_id, first.name, first.amount,
                                    first.frequency)
         IN  IF added.raised # "" THEN added
             ELSE SaveIncomes(added.income, added.last_id, user_id, Tail(incomes_to_save))

----------------------------------------------------------------------------
(* The HTTP layer: income and expenses *)

\* text.strip() of the texts the forms carry
Strip(text) ==
    CASE text = " Alice " -> "Alice"
      [] text = " " -> ""
      [] text = " Alice@Example.dk " -> "Alice@Example.dk"
      [] OTHER -> text

\* text.lower() of the texts the forms carry
Lower(text) ==
    CASE text = "Alice@Example.dk" -> "alice@example.dk"
      [] text = " Alice@Example.dk " -> " alice@example.dk "
      [] text \in {"Anna", "ANNA"} -> "anna"
      [] text \in {"Søren", "SØREN"} -> "søren"
      [] OTHER -> text

\* an amount field: the text of a number, or a text float() refuses
Number(n) == [is_number |-> TRUE, value |-> n, is_empty |-> FALSE]
NotANumber == [is_number |-> FALSE, value |-> 0, is_empty |-> FALSE]
EmptyText == [is_number |-> FALSE, value |-> 0, is_empty |-> TRUE]

\* the parsing loop of update_income over income_name_0, income_name_1, ...
RECURSIVE ParseIncomes(_)
ParseIncomes(form) ==
    IF form = <<>> THEN [raised |-> "", incomes_to_save |-> <<>>]
    ELSE LET row == Head(form)
             name == Strip(row.name)
             rest == ParseIncomes(Tail(form))
         IN  IF name = "" THEN rest
             ELSE IF ~row.amount.is_empty /\ ~row.amount.is_number
             THEN [raised |-> "ValueError", incomes_to_save |-> <<>>]
             ELSE IF rest.raised # "" THEN rest
             ELSE [raised |-> "",
                   incomes_to_save |->
                       <<[name |-> name,
                          amount |-> IF row.amount.is_empty THEN 0 ELSE row.amount.value,
                          frequency |-> IF row.frequency \notin VALID_FREQUENCIES
                                        THEN "monthly" ELSE row.frequency]>>
                       \o rest.incomes_to_save]

Response(status, location) == [status |-> status, location |-> location]

\* the new rows are added to the rows the user has
api_update_income_keep_old(cookie, form) ==
    /\ now < MaxRequests
    /\ now' = now + 1
    /\ LET parsed == ParseIncomes(form)
           user_id == get_user_id(cookie)
           saved == SaveIncomes(income, seq.income,
                                user_id, parsed.incomes_to_save)
           outcome ==
               IF ~check_auth(cookie)
               THEN [response |-> Response(303, "/budget/login"), income |-> income,
                     last_id |-> seq.income]
               ELSE IF is_demo_mode(cookie)
               THEN [response |-> Response(303, "/budget/"), income |-> income,
                     last_id |-> seq.income]
               ELSE IF parsed.raised # ""
               THEN [response |-> Response(500, ""), income |-> income,
                     last_id |-> seq.income]
               ELSE [response |-> IF saved.raised # "" THEN Response(500, "")
                                  ELSE Response(303, "/budget/"),
                     income |-> saved.income, last_id |-> saved.last_id]
       IN  /\ income' = outcome.income
           /\ seq' = [seq EXCEPT !.income = outcome.last_id]
           /\ op' = [name |-> "POST /budget/income", cookie |-> cookie, form |-> form,
                     response |-> outcome.response]
    /\ UNCHANGED <<tie, obj, ret, expenses, categories, accounts, users, tokens,
                   SESSIONS, attempts, feedback_attempts, served, tz, proc>>

\* POST /budget/income
api_update_income(cookie, form) ==
    /\ now < MaxRequests
    /\ now' = now + 1
    /\ LET parsed == ParseIncomes(form)
           user_id == get_user_id(cookie)
           saved == SaveIncomes({r \in income : r.user_id # user_id}, seq.income,
                                user_id, parsed.incomes_to_save)
           outcome ==
               IF ~check_auth(cookie)
               THEN [response |-> Response(303, "/budget/login"), income |-> income,
                     last_id |-> seq.income]
               ELSE IF is_demo_mode(cookie)
               THEN [response |-> Response(303, "/budget/"), income |-> income,
                     last_id |-> seq.income]
               ELSE IF parsed.raised # ""
               THEN [response |-> Response(500, ""), income |-> income,
                     last_id |-> seq.income]
               ELSE [response |-> IF saved.raised # "" THEN Response(500, "")
                                  ELSE Response(303, "/budget/"),
                     income |-> saved.income, last_id |-> saved.last_id]
       IN  /\ income' = outcome.income
           /\ seq' = [seq EXCEPT !.income = outcome.last_id]
           /\ op' = [name |-> "POST /budget/income", cookie |-> cookie, form |-> form,
                     response |-> outcome.response]
    /\ UNCHANGED <<tie, obj, ret, expenses, categories, accounts, users, tokens,
                   SESSIONS, attempts, feedback_attempts, served, tz, proc>>

\* the frequency left to the CHECK of the table
api_add_expense_unvalidated(cookie, form) ==
    /\ now < MaxRequests
    /\ now' = now + 1
    /\ LET added == db_add_expense(expenses, seq.expenses, get_user_id(cookie), form.name,
                                   form.category, form.amount, form.frequency,
                                   NoAccount, None_months)
           outcome ==
               IF ~check_auth(cookie)
               THEN [response |-> Response(303, "/budget/login"), expenses |-> expenses,
                     last_id |-> seq.expenses]
               ELSE IF is_demo_mode(cookie)
               THEN [response |-> Response(303, "/budget/expenses"),
                     expenses |-> expenses, last_id |-> seq.expenses]
               ELSE [response |-> IF added.raised # "" THEN Response(500, "")
                                  ELSE Response(303, "/budget/expenses"),
                     expenses |-> added.expenses, last_id |-> added.last_id]
       IN  /\ expenses' = outcome.expenses
           /\ seq' = [seq EXCEPT !.expenses = outcome.last_id]
           /\ op' = [name |-> "POST /budget/expenses/add", cookie |-> cookie,
                     form |-> form, response |-> outcome.response]
    /\ UNCHANGED <<tie, obj, ret, income, categories, accounts, users, tokens,
                   SESSIONS, attempts, feedback_attempts, served, tz, proc>>

\* POST /budget/expenses/add: the form fields name, category, amount and frequency
\* are read; any other field of the form, such as months, is not
api_add_expense(cookie, form) ==
    /\ now < MaxRequests
    /\ now' = now + 1
    /\ LET added == db_add_expense(expenses, seq.expenses, get_user_id(cookie), form.name,
                                   form.category, form.amount, form.frequency,
                                   NoAccount, None_months)
           outcome ==
               IF ~form.amount_is_float
               THEN [response |-> Response(422, ""), expenses |-> expenses,
                     last_id |-> seq.expenses]
               ELSE IF ~check_auth(cookie)
               THEN [response |-> Response(303, "/budget/login"), expenses |-> expenses,
                     last_id |-> seq.expenses]
               ELSE IF is_demo_mode(cookie)
               THEN [response |-> Response(303, "/budget/expenses"),
                     expenses |-> expenses, last_id |-> seq.expenses]
               ELSE IF form.frequency \notin VALID_FREQUENCIES
               THEN [response |-> Response(400, ""), expenses |-> expenses,
                     last_id |-> seq.expenses]
               ELSE [response |-> IF added.raised # "" THEN Response(500, "")
                                  ELSE Response(303, "/budget/expenses"),
                     expenses |-> added.expenses, last_id |-> added.last_id]
       IN  /\ expenses' = outcome.expenses
           /\ seq' = [seq EXCEPT !.expenses = outcome.last_id]
           /\ op' = [name |-> "POST /budget/expenses/add", cookie |-> cookie,
                     form |-> form, response |-> outcome.response]
    /\ UNCHANGED <<tie, obj, ret, income, categories, accounts, users, tokens,
                   SESSIONS, attempts, feedback_attempts, served, tz, proc>>

\* POST /budget/expenses/{expense_id}/edit
api_edit_expense(cookie, expense_id, form) ==
    /\ now < MaxRequests
    /\ now' = now + 1
    /\ LET updated == db_update_expense(expenses, expense_id, get_user_id(cookie),
                                        form.name, form.category, form.amount,
                                        form.frequency, NoAccount, None_months)
           outcome ==
               IF ~form.amount_is_float
               THEN [response |-> Response(422, ""), expenses |-> expenses]
               ELSE IF ~check_auth(cookie)
               THEN [response |-> Response(303, "/budget/login"), expenses |-> expenses]
               ELSE IF is_demo_mode(cookie)
               THEN [response |-> Response(303, "/budget/expenses"),
                     expenses |-> expenses]
               ELSE IF form.frequency \notin VALID_FREQUENCIES
               THEN [response |-> Response(400, ""), expenses |-> expenses]
               ELSE [response |-> IF updated.raised # "" THEN Response(500, "")
                                  ELSE Response(303, "/budget/expenses"),
                     expenses |-> updated.expenses]
       IN  /\ expenses' = outcome.expenses
           /\ op' = [name |-> "POST /budget/expenses/edit", cookie |-> cookie,
                     id |-> expense_id, form |-> form, response |-> outcome.response]
    /\ UNCHANGED <<tie, obj, ret, income, seq, categories, accounts, users, tokens,
                   SESSIONS, attempts, feedback_attempts, served, tz, proc>>

\* POST /budget/expenses/{expense_id}/delete
api_delete_expense(cookie, expense_id) ==
    /\ now < MaxRequests
    /\ now' = now + 1
    /\ LET outcome ==
               IF ~check_auth(cookie)
               THEN [response |-> Response(303, "/budget/login"), expenses |-> expenses]
               ELSE IF is_demo_mode(cookie)
               THEN [response |-> Response(303, "/budget/expenses"),
                     expenses |-> expenses]
               ELSE [response |-> Response(303, "/budget/expenses"),
                     expenses |-> db_delete_expense(expenses, expense_id,
                                                    get_user_id(cookie))]
       IN  /\ expenses' = outcome.expenses
           /\ op' = [name |-> "POST /budget/expenses/delete", cookie |-> cookie,
                     id |-> expense_id, response |-> outcome.response]
    /\ UNCHANGED <<tie, obj, ret, income, seq, categories, accounts, users, tokens,
                   SESSIONS, attempts, feedback_attempts, served, tz, proc>>

----------------------------------------------------------------------------
(* The HTTP layer: categories, email and pages *)

\* NULL in users.email_hash
NoEmailHash == <<"NULL", "">>

\* sha256 of email.lower().strip()
hash_email(email) == <<"sha256", Strip(Lower(email))>>

\* the stored hash of a password
hash_password(password) == <<"pbkdf2_hmac", password>>

UserRow(id, username, password, email_hash) ==
    [id |-> id, username |-> username, password_hash |-> hash_password(password),
     email_hash |-> email_hash]

\* db.update_user_email: UPDATE users SET email_hash = ? WHERE id = ?
db_update_user_email(table, user_id, email) ==
    {IF u.id = user_id
     THEN [u EXCEPT !.email_hash = IF email = "" THEN NoEmailHash ELSE hash_email(email)]
     ELSE u : u \in table}

\* "@" in email, of the emails the forms carry
HasAt(email) == email \in {"Alice@Example.dk", "alice@example.dk"}

\* db.add_category: INSERT INTO categories, refused by UNIQUE(user_id, name) and
\* by user_id NOT NULL
db_add_category(table, last_id, user_id, name, icon) ==
    IF user_id = NoUser \/ \E c \in table : c.user_id = user_id /\ c.name = name
    THEN [raised |-> "IntegrityError", categories |-> table, last_id |-> last_id]
    ELSE [raised |-> "",
          categories |-> table \cup {CategoryRow(last_id + 1, user_id, name, icon)},
          last_id |-> last_id + 1]

\* a rename that follows the old name in the expenses of every user
db_update_category_all_users(cats, exps, category_id, user_id, name, icon) ==
    LET row == {c \in cats : c.id = category_id /\ c.user_id = user_id}
    IN  IF row = {}
        THEN [raised |-> "", returned |-> 0, categories |-> cats, expenses |-> exps]
        ELSE IF \E c \in cats \ row : c.user_id = user_id /\ c.name = name
        THEN [raised |-> "IntegrityError", returned |-> 0, categories |-> cats,
              expenses |-> exps]
        ELSE LET old_name == (CHOOSE c \in row : TRUE).name
             IN  [raised |-> "",
                  returned |-> IF old_name # name
                               THEN Cardinality({r \in exps : r.category = old_name})
                               ELSE 0,
                  categories |->
                      {IF c \in row THEN [c EXCEPT !.name = name, !.icon = icon] ELSE c :
                         c \in cats},
                  expenses |->
                      {IF r.category = old_name
                       THEN [r EXCEPT !.category = name] ELSE r : r \in exps}]

\* db.update_category: the expenses of the user follow the new name, then the row
\* is updated; a refusal by UNIQUE(user_id, name) leaves both tables as they were
\* and nothing is returned. returned is updated_expenses, the rowcount of the
\* UPDATE of the expenses
db_update_category(cats, exps, category_id, user_id, name, icon) ==
    LET row == {c \in cats : c.id = category_id /\ c.user_id = user_id}
    IN  IF row = {}
        THEN [raised |-> "", returned |-> 0, categories |-> cats, expenses |-> exps]
        ELSE IF \E c \in cats \ row : c.user_id = user_id /\ c.name = name
        THEN [raised |-> "IntegrityError", returned |-> 0, categories |-> cats,
              expenses |-> exps]
        ELSE LET old_name == (CHOOSE c \in row : TRUE).name
             IN  [raised |-> "",
                  returned |-> IF old_name # name
                               THEN Cardinality({r \in exps : /\ r.category = old_name
                                                              /\ r.user_id = user_id})
                               ELSE 0,
                  categories |->
                      {IF c \in row THEN [c EXCEPT !.name = name, !.icon = icon] ELSE c :
                         c \in cats},
                  expenses |->
                      {IF r.category = old_name /\ r.user_id = user_id
                       THEN [r EXCEPT !.category = name] ELSE r : r \in exps}]

\* db.update_account: the same steps on the accounts table and the account column
db_update_account(accts, exps, account_id, user_id, name) ==
    LET row == {a \in accts : a.id = account_id /\ a.user_id = user_id}
    IN  IF row = {}
        THEN [raised |-> "", returned |-> 0, accounts |-> accts, expenses |-> exps]
        ELSE IF \E a \in accts \ row : a.user_id = user_id /\ a.name = name
        THEN [raised |-> "IntegrityError", returned |-> 0, accounts |-> accts,
              expenses |-> exps]
        ELSE LET old_name == (CHOOSE a \in row : TRUE).name
             IN  [raised |-> "",
                  returned |-> IF old_name # name
                               THEN Cardinality({r \in exps : /\ r.account = old_name
                                                              /\ r.user_id = user_id})
                               ELSE 0,
                  accounts |->
                      {IF a \in row THEN [a EXCEPT !.name = name] ELSE a : a \in accts},
                  expenses |->
                      {IF r.account = old_name /\ r.user_id = user_id
                       THEN [r EXCEPT !.account = name] ELSE r : r \in exps}]

\* db.delete_category, as a function of the tables
db_delete_category(cats, category_id, user_id) ==
    LET row == {c \in cats : c.id = category_id /\ c.user_id = user_id}
    IN  IF row = {} THEN [returned |-> FALSE, categories |-> cats]
        ELSE IF CategoryInUse(category_id, (CHOOSE c \in row : TRUE).name, user_id) # {}
        THEN [returned |-> FALSE, categories |-> cats]
        ELSE [returned |-> TRUE, categories |-> cats \ row]

\* POST /budget/categories/add
api_add_category(cookie, form) ==
    /\ now < MaxRequests
    /\ now' = now + 1
    /\ LET added == db_add_category(categories, seq.categories, get_user_id(cookie),
                                    form.name, form.icon)
           outcome ==
               IF ~check_auth(cookie)
               THEN [response |-> Response(303, "/budget/login"),
                     categories |-> categories, last_id |-> seq.categories]
               ELSE IF is_demo_mode(cookie)
               THEN [response |-> Response(303, "/budget/categories"),
                     categories |-> categories, last_id |-> seq.categories]
               ELSE [response |-> IF added.raised # "" THEN Response(500, "")
                                  ELSE Response(303, "/budget/categories"),
                     categories |-> added.categories, last_id |-> added.last_id]
       IN  /\ categories' = outcome.categories
           /\ seq' = [seq EXCEPT !.categories = outcome.last_id]
           /\ op' = [name |-> "POST /budget/categories/add", cookie |-> cookie,
                     form |-> form, response |-> outcome.response]
    /\ UNCHANGED <<tie, obj, ret, income, expenses, accounts, users, tokens, SESSIONS,
                   attempts, feedback_attempts, served, tz, proc>>

\* POST /budget/categories/{category_id}/edit
api_edit_category(cookie, category_id, form) ==
    /\ now < MaxRequests
    /\ now' = now + 1
    /\ LET updated == db_update_category(categories, expenses, category_id,
                                         get_user_id(cookie), form.name, form.icon)
           outcome ==
               IF ~check_auth(cookie)
               THEN [response |-> Response(303, "/budget/login"),
                     categories |-> categories, expenses |-> expenses]
               ELSE IF is_demo_mode(cookie)
               THEN [response |-> Response(303, "/budget/categories"),
                     categories |-> categories, expenses |-> expenses]
               ELSE [response |-> IF updated.raised # "" THEN Response(500, "")
                                  ELSE Response(303, "/budget/categories"),
                     categories |-> updated.categories, expenses |-> updated.expenses]
       IN  /\ categories' = outcome.categories
           /\ expenses' = outcome.expenses
           /\ op' = [name |-> "POST /budget/categories/edit", cookie |-> cookie,
                     id |-> category_id, form |-> form, response |-> outcome.response]
    /\ UNCHANGED <<tie, obj, ret, income, seq, accounts, users, tokens, SESSIONS,
                   attempts, feedback_attempts, served, tz, proc>>

\* POST /budget/categories/{category_id}/delete
api_delete_category(cookie, category_id) ==
    /\ now < MaxRequests
    /\ now' = now + 1
    /\ LET deleted == db_delete_category(categories, category_id, get_user_id(cookie))
           outcome ==
               IF ~check_auth(cookie)
               THEN [response |-> Response(303, "/budget/login"),
                     categories |-> categories]
               ELSE IF is_demo_mode(cookie)
               THEN [response |-> Response(303, "/budget/categories"),
                     categories |-> categories]
               ELSE [response |-> IF deleted.returned
                                  THEN Response(303, "/budget/categories")
                                  ELSE Response(400, ""),
                     categories |-> deleted.categories]
       IN  /\ categories' = outcome.categories
           /\ op' = [name |-> "POST /budget/categories/delete", cookie |-> cookie,
                     id |-> category_id, response |-> outcome.response]
    /\ UNCHANGED <<tie, obj, ret, income, expenses, seq, accounts, users, tokens,
                   SESSIONS, attempts, feedback_attempts, served, tz, proc>>

\* POST /budget/settings/email
api_update_email(cookie, email) ==
    /\ now < MaxRequests
    /\ now' = now + 1
    /\ LET stripped == Strip(email)
           outcome ==
               IF ~check_auth(cookie)
               THEN [response |-> Response(303, "/budget/login"), users |-> users]
               ELSE IF is_demo_mode(cookie)
               THEN [response |-> Response(303, "/budget/"), users |-> users]
               ELSE IF stripped = ""
               THEN [response |-> Response(200, ""),
                     users |-> db_update_user_email(users, get_user_id(cookie), "")]
               ELSE IF ~HasAt(stripped)
               THEN [response |-> Response(200, ""), users |-> users]
               ELSE [response |-> Response(200, ""),
                     users |-> db_update_user_email(users, get_user_id(cookie), stripped)]
       IN  /\ users' = outcome.users
           /\ op' = [name |-> "POST /budget/settings/email", cookie |-> cookie,
                     form |-> email, response |-> outcome.response]
    /\ UNCHANGED <<tie, obj, ret, income, expenses, seq, categories, accounts, tokens,
                   SESSIONS, attempts, feedback_attempts, served, tz, proc>>

\* (person, amount, frequency) of the income of the demo
DEMO_INCOME ==
    <<<<"Person 1", 28000000, "monthly">>, <<"Person 2", 22000000, "monthly">>,
      <<"Bonus", 30000000, "semi-annual">>>>

\* (name, category, amount, frequency) of the expenses of the demo
DEMO_EXPENSES ==
    <<<<"Husleje/boliglån", "Bolig", 12000000, "monthly">>,
      <<"Ejendomsskat", "Bolig", 18000000, "yearly">>,
      <<"Varme", "Forbrug", 800000, "monthly">>,
      <<"El", "Forbrug", 600000, "monthly">>,
      <<"Vand", "Forbrug", 2400000, "quarterly">>,
      <<"Internet", "Forbrug", 299000, "monthly">>,
      <<"Bil - lån", "Transport", 2500000, "monthly">>,
      <<"Benzin", "Transport", 1500000, "monthly">>,
      <<"Vægtafgift", "Transport", 3600000, "yearly">>,
      <<"Bilforsikring", "Transport", 6000000, "yearly">>,
      <<"Institution", "Børn", 3200000, "monthly">>,
      <<"Fritidsaktiviteter", "Børn", 400000, "monthly">>,
      <<"Dagligvarer", "Mad", 6000000, "monthly">>,
      <<"Indboforsikring", "Forsikring", 1800000, "yearly">>,
      <<"Ulykkesforsikring", "Forsikring", 1200000, "yearly">>,
      <<"Tandlægeforsikring", "Forsikring", 600000, "quarterly">>,
      <<"Netflix", "Abonnementer", 129000, "monthly">>,
      <<"Spotify", "Abonnementer", 99000, "monthly">>,
      <<"Fitness", "Abonnementer", 299000, "monthly">>,
      <<"Opsparing", "Opsparing", 3000000, "monthly">>,
      <<"Telefon", "Andet", 299000, "monthly">>,
      <<"Diverse", "Andet", 500000, "monthly">>>>

get_demo_income ==
    [i \in DOMAIN DEMO_INCOME |->
        IncomeRow(i, 0, DEMO_INCOME[i][1], DEMO_INCOME[i][2], DEMO_INCOME[i][3])]

get_demo_expenses ==
    [i \in DOMAIN DEMO_EXPENSES |->
        ExpenseRow(i, 0, DEMO_EXPENSES[i][1], DEMO_EXPENSES[i][2], DEMO_EXPENSES[i][3],
                   DEMO_EXPENSES[i][4], None_months)]

\* ORDER BY person; rows equal in it come in the order of their ids
RECURSIVE OrderByPerson(_)
OrderByPerson(rows) ==
    IF rows = {} THEN <<>>
    ELSE LET first == CHOOSE r \in rows : \A o \in rows \ {r} :
                          \/ Rank(r.person) < Rank(o.person)
                          \/ Rank(r.person) = Rank(o.person) /\ r.id < o.id
         IN  <<first>> \o OrderByPerson(rows \ {first})

\* SELECT ... FROM income WHERE user_id = ? ORDER BY person
get_all_income(user_id) == OrderByPerson({r \in income : r.user_id = user_id})

\* GET /budget/income: the incomes the page shows
income_page(cookie) ==
    /\ now < MaxRequests
    /\ now' = now + 1
    /\ op' = [name |-> "GET /budget/income", cookie |-> cookie,
              response |-> IF ~check_auth(cookie) THEN Response(303, "/budget/login")
                           ELSE Response(200, ""),
              incomes |-> IF ~check_auth(cookie) THEN <<>>
                          ELSE IF is_demo_mode(cookie) THEN get_demo_income
                          ELSE get_all_income(get_user_id(cookie))]
    /\ UNCHANGED <<tie, obj, ret, income, expenses, seq, categories, accounts, users,
                   tokens, SESSIONS, attempts, feedback_attempts, served, tz, proc>>

\* GET /budget/expenses: the expenses the page shows
expenses_page(cookie) ==
    /\ now < MaxRequests
    /\ now' = now + 1
    /\ op' = [name |-> "GET /budget/expenses", cookie |-> cookie,
              response |-> IF ~check_auth(cookie) THEN Response(303, "/budget/login")
                           ELSE Response(200, ""),
              expenses |-> IF ~check_auth(cookie) THEN <<>>
                           ELSE IF is_demo_mode(cookie) THEN get_demo_expenses
                           ELSE get_all_expenses(get_user_id(cookie))]
    /\ UNCHANGED <<tie, obj, ret, income, expenses, seq, categories, accounts, users,
                   tokens, SESSIONS, attempts, feedback_attempts, served, tz, proc>>

----------------------------------------------------------------------------
(* The other pages behind the login *)

\* SELECT COUNT(*) FROM expenses WHERE user_id = ? AND (category = ? OR
\* category_id = (SELECT id FROM categories WHERE name = ? AND user_id = ?))
get_category_usage_count(category_name, user_id) ==
    Cardinality({r \in expenses :
        /\ r.user_id = user_id
        /\ \/ r.category = category_name
           \/ \E c \in categories : /\ c.name = category_name
                                     /\ c.user_id = user_id
                                     /\ r.category_id = c.id})

\* sum(x.monthly_amount for x in ...) over a list of monthly amounts
MonthlySum(amounts) ==
    SumValues([i \in DOMAIN amounts |-> [value |-> Float(amounts[i])]])

get_demo_total_income(t) ==
    MonthlySum([i \in DOMAIN get_demo_income |-> Income_monthly_amount(get_demo_income[i], t)])

get_demo_total_expenses(t) ==
    MonthlySum([i \in DOMAIN get_demo_expenses |->
                   Expense_monthly_amount(get_demo_expenses[i], t)])

get_demo_category_totals(t) == CategoryTotalsLoop(get_demo_expenses, <<>>, t)

\* GET /budget/: the numbers the dashboard shows
api_dashboard(cookie) ==
    /\ now < MaxRequests
    /\ now' = now + 1
    /\ op' = [name |-> "GET /budget/", cookie |-> cookie,
              response |-> IF ~check_auth(cookie) THEN Response(303, "/budget/login")
                           ELSE Response(200, ""),
              shown |-> IF ~check_auth(cookie) THEN <<>>
                        ELSE IF is_demo_mode(cookie)
                        THEN <<[incomes |-> get_demo_income,
                                total_income |-> get_demo_total_income(tie),
                                total_expenses |-> get_demo_total_expenses(tie),
                                category_totals |-> get_demo_category_totals(tie)]>>
                        ELSE <<[incomes |-> get_all_income(get_user_id(cookie)),
                                total_income |-> get_total_income(get_user_id(cookie)),
                                total_expenses |->
                                    get_total_monthly_expenses(get_user_id(cookie)),
                                category_totals |->
                                    get_category_totals(get_user_id(cookie), tie)]>>]
    /\ UNCHANGED <<tie, obj, ret, income, expenses, seq, categories, accounts, users,
                   tokens, SESSIONS, attempts, feedback_attempts, served, tz, proc>>

\* GET /budget/categories: the categories of the user, or of the demo user 0, each
\* with the number of expenses that use it
api_categories_page(cookie) ==
    /\ now < MaxRequests
    /\ now' = now + 1
    /\ LET effective_user_id == IF is_demo_mode(cookie) THEN 0 ELSE get_user_id(cookie)
           listed == {c \in categories : c.user_id = effective_user_id}
       IN  op' = [name |-> "GET /budget/categories", cookie |-> cookie,
                  response |-> IF ~check_auth(cookie) THEN Response(303, "/budget/login")
                               ELSE Response(200, ""),
                  shown |-> IF ~check_auth(cookie) THEN {}
                            ELSE {[name |-> c.name,
                                   usage |-> IF is_demo_mode(cookie) THEN 0
                                             ELSE get_category_usage_count(
                                                      c.name, get_user_id(cookie))] :
                                    c \in listed}]
    /\ UNCHANGED <<tie, obj, ret, income, expenses, seq, categories, accounts, users,
                   tokens, SESSIONS, attempts, feedback_attempts, served, tz, proc>>

\* GET /budget/help and GET /budget/feedback: a page with no stored data on it
api_static_page(path, cookie) ==
    /\ now < MaxRequests
    /\ now' = now + 1
    /\ op' = [name |-> path, cookie |-> cookie,
              response |-> IF ~check_auth(cookie) THEN Response(303, "/budget/login")
                           ELSE Response(200, "")]
    /\ UNCHANGED <<tie, obj, ret, income, expenses, seq, categories, accounts, users,
                   tokens, SESSIONS, attempts, feedback_attempts, served, tz, proc>>

FEEDBACK_RATE_LIMIT == 5
FEEDBACK_RATE_WINDOW == 3600

\* check_feedback_rate_limit: the attempts of the ip inside the window, which it
\* stores back
FeedbackRecent(client_ip) ==
    SelectSeq(IF client_ip \in DOMAIN feedback_attempts
              THEN feedback_attempts[client_ip] ELSE <<>>,
              LAMBDA t : now - t < FEEDBACK_RATE_WINDOW)

\* POST /budget/feedback; github is what the GitHub API does with the issue:
\* "no_token" (none is sent), "created" or "error"
api_submit_feedback(cookie, client_ip, form, github) ==
    /\ now < MaxRequests
    /\ now' = now + 1
    /\ LET recent == FeedbackRecent(client_ip)
           cleaned == (client_ip :> recent) @@ feedback_attempts
           outcome ==
               IF ~check_auth(cookie)
               THEN [response |-> Response(303, "/budget/login"), shown |-> "",
                     feedback_attempts |-> feedback_attempts]
               ELSE IF form.website # ""
               THEN [response |-> Response(200, ""), shown |-> "success",
                     feedback_attempts |-> feedback_attempts]
               ELSE IF ~(Len(recent) < FEEDBACK_RATE_LIMIT)
               THEN [response |-> Response(200, ""), shown |-> "error",
                     feedback_attempts |-> cleaned]
               ELSE IF form.description_len < 10 \/ github = "error"
               THEN [response |-> Response(200, ""), shown |-> "error",
                     feedback_attempts |-> cleaned]
               ELSE [response |-> Response(200, ""), shown |-> "success",
                     feedback_attempts |-> (client_ip :> Append(recent, now)) @@ cleaned]
       IN  /\ feedback_attempts' = outcome.feedback_attempts
           /\ op' = [name |-> "POST /budget/feedback", cookie |-> cookie, form |-> form,
                     response |-> outcome.response, shown |-> outcome.shown]
    /\ UNCHANGED <<tie, obj, ret, income, expenses, seq, categories, accounts, users,
                   tokens, SESSIONS, attempts, served, tz, proc>>

\* GET /budget/api/chart-data
api_chart_data(cookie) ==
    /\ now < MaxRequests
    /\ now' = now + 1
    /\ op' = [name |-> "GET /budget/api/chart-data", cookie |-> cookie,
              response |-> IF ~check_auth(cookie) THEN Response(303, "/budget/login")
                           ELSE Response(200, ""),
              shown |-> IF ~check_auth(cookie) THEN <<>>
                        ELSE IF is_demo_mode(cookie)
                        THEN <<[total_income |-> get_demo_total_income(tie),
                                total_expenses |-> get_demo_total_expenses(tie),
                                category_totals |->
                                    GroupCategories(get_demo_category_totals(tie))]>>
                        ELSE <<chart_data(get_user_id(cookie), tie)>>]
    /\ UNCHANGED <<tie, obj, ret, income, expenses, seq, categories, accounts, users,
                   tokens, SESSIONS, attempts, feedback_attempts, served, tz, proc>>

\* GET /budget/settings
api_settings_page(cookie) ==
    /\ now < MaxRequests
    /\ now' = now + 1
    /\ LET user == {u \in users : u.id = get_user_id(cookie)}
       IN  op' = [name |-> "GET /budget/settings", cookie |-> cookie,
                  response |-> IF ~check_auth(cookie) THEN Response(303, "/budget/login")
                               ELSE IF is_demo_mode(cookie) THEN Response(303, "/budget/")
                               ELSE Response(200, ""),
                  shown |-> IF ~check_auth(cookie) \/ is_demo_mode(cookie) THEN {}
                            ELSE {[username |-> u.username,
                                   has_email |-> u.email_hash # NoEmailHash] : u \in user}]
    /\ UNCHANGED <<tie, obj, ret, income, expenses, seq, categories, accounts, users,
                   tokens, SESSIONS, attempts, feedback_attempts, served, tz, proc>>

----------------------------------------------------------------------------
(* The requests of the checked runs *)

Cookies == {NoCookie, DEMO_SESSION_ID, "tok1", "expired"}

\* the fields of an expense form; amount_is_float: the text sent as amount is a
\* number, so that the parameter amount: float = Form(...) can be filled
ExpenseForm(name, category, amount, frequency, months) ==
    [name |-> name, category |-> category, amount |-> amount, frequency |-> frequency,
     months |-> months, amount_is_float |-> TRUE]

\* a valid form, a negative amount, a frequency outside the enum, and months that
\* are outside 1..12, too few for the frequency, or sent with a monthly expense
ExpenseForms ==
    {ExpenseForm("Vand", "Bolig", 100000, "quarterly", [is_none |-> FALSE, items |-> <<1, 4, 7, 10>>]),
     ExpenseForm("Vand", "Bolig", -100000, "monthly", None_months),
     ExpenseForm("Vand", "Bolig", 100000, "weekly", None_months),
     ExpenseForm("Vand", "Bolig", 100000, "yearly", [is_none |-> FALSE, items |-> <<13>>]),
     ExpenseForm("Vand", "Bolig", 100000, "semi-annual", [is_none |-> FALSE, items |-> <<3>>]),
     ExpenseForm("Vand", "Mad", 100000, "monthly", None_months),
     [ExpenseForm("Vand", "Mad", 0, "monthly", None_months)
        EXCEPT !.amount_is_float = FALSE]}

\* a description long enough, one too short, and a form a bot filled in
FeedbackForms ==
    {[feedback_type |-> "bug", description_len |-> 25, website |-> ""],
     [feedback_type |-> "bug", description_len |-> 4, website |-> ""],
     [feedback_type |-> "feedback", description_len |-> 25, website |-> "http://spam"]}

IncomeField(name, amount, frequency) ==
    [name |-> name, amount |-> amount, frequency |-> frequency]

IncomeForms ==
    {<<>>,
     <<IncomeField(" Alice ", Number(30000000), "monthly"),
       IncomeField("Bob", EmptyText, "yearly")>>,
     <<IncomeField("Alice", Number(-5000000), "monthly")>>,
     <<IncomeField("Alice", Number(30000000), "weekly")>>,
     <<IncomeField("Alice", NotANumber, "monthly")>>,
     <<IncomeField("Bob", Number(1000000), "monthly"),
       IncomeField(" ", Number(1000000), "monthly"),
       IncomeField("Bob", Number(2000000), "monthly")>>}

CategoryForms == {[name |-> "Fritid", icon |-> "tag"], [name |-> "Mad", icon |-> "tag"]}

EmailForms == {"", " Alice@Example.dk ", "alice"}

\* two registered users, the first one logged in; each has categories, and an
\* expense stored with the months it falls in
InitHttp ==
    /\ tie = [parity \in 0..1 |-> parity]
    /\ obj = [amount |-> 0, frequency |-> "monthly", months |-> None_months]
    /\ ret = <<>>
    /\ income \in {{}, {IncomeRow(1, 1, "Alice", 30000000, "monthly"),
                         IncomeRow(2, 2, "Bob", 25000000, "monthly")}}
    /\ expenses =
          {ExpenseRow(1, 1, "El", "Bolig", 600000, "semi-annual",
                      [is_none |-> FALSE, items |-> <<3, 9>>]),
           ExpenseRow(2, 2, "El", "Bolig", 500000, "monthly", None_months)}
    /\ categories = InitCategories \cup
          {CategoryRow(Len(DEFAULT_CATEGORIES) + 1, 1, "Bolig", "house"),
           CategoryRow(Len(DEFAULT_CATEGORIES) + 2, 1, "Mad", "utensils"),
           CategoryRow(Len(DEFAULT_CATEGORIES) + 3, 2, "Bolig", "house")}
    /\ seq = [income |-> 2, expenses |-> 2, categories |-> Len(DEFAULT_CATEGORIES) + 3,
              accounts |-> 0]
    /\ op = NoCall
    /\ accounts = {}
    /\ users = {UserRow(1, "alice", "secret1", NoEmailHash),
                UserRow(2, "bob", "secret2", hash_email("bob@example.dk"))}
    /\ tokens = {}
    /\ SESSIONS = (hash_token("tok1") :> 1)
    /\ attempts = <<>>
    /\ feedback_attempts = <<>>
    /\ served = <<>>
    /\ now = 0
    /\ tz = 0
    /\ proc = <<>>

NextHttp ==
    \/ \E cookie \in Cookies, form \in IncomeForms : api_update_income(cookie, form)
    \/ \E cookie \in Cookies, form \in ExpenseForms : api_add_expense(cookie, form)
    \/ \E cookie \in Cookies, id \in 1..2, form \in ExpenseForms :
          api_edit_expense(cookie, id, form)
    \/ \E cookie \in Cookies, id \in 1..2 : api_delete_expense(cookie, id)
    \/ \E cookie \in Cookies, form \in CategoryForms : api_add_category(cookie, form)
    \/ \E cookie \in Cookies, form \in CategoryForms,
          id \in (Len(DEFAULT_CATEGORIES) + 1)..(Len(DEFAULT_CATEGORIES) + 3) :
          api_edit_category(cookie, id, form)
    \/ \E cookie \in Cookies,
          id \in (Len(DEFAULT_CATEGORIES) + 1)..(Len(DEFAULT_CATEGORIES) + 3) :
          api_delete_category(cookie, id)
    \/ \E cookie \in Cookies, email \in EmailForms : api_update_email(cookie, email)
    \/ \E cookie \in Cookies : income_page(cookie)
    \/ \E cookie \in Cookies : expenses_page(cookie)
    \/ \E cookie \in Cookies : api_dashboard(cookie)
    \/ \E cookie \in Cookies : api_categories_page(cookie)
    \/ \E cookie \in Cookies, path \in {"GET /budget/help", "GET /budget/feedback"} :
          api_static_page(path, cookie)
    \/ \E cookie \in Cookies, form \in FeedbackForms, github \in {"no_token", "error"} :
          api_submit_feedback(cookie, "10.0.0.1", form, github)
    \/ \E cookie \in Cookies : api_chart_data(cookie)
    \/ \E cookie \in Cookies : api_settings_page(cookie)

SpecHttp == InitHttp /\ [][NextHttp]_vars

----------------------------------------------------------------------------
(* Validation of the expense and income forms *)

\* the request is handled for a logged-in user
Authenticated(cookie) == check_auth(cookie) /\ ~is_demo_mode(cookie)

ExpenseRequests == {"POST /budget/expenses/add", "POST /budget/expenses/edit"}

\* months is absent, or the frequency is not monthly and months has as many
\* entries as the frequency has payments a year, each in 1..12, none repeated
MonthsRule(frequency, months) ==
    \/ months.is_none
    \/ /\ frequency \in {"quarterly", "semi-annual", "yearly"}
       /\ Len(months.items) = (CASE frequency = "quarterly" -> 4
                                 [] frequency = "semi-annual" -> 2
                                 [] frequency = "yearly" -> 1)
       /\ \A i \in DOMAIN months.items : months.items[i] \in 1..12
       /\ \A i, j \in DOMAIN months.items : i # j => months.items[i] # months.items[j]

\* C12: after every add-expense and edit-expense request each stored expense has
\* months absent when it is monthly and otherwise, when present, 4, 2 or 1 distinct
\* entries in 1..12; a request whose months break the rule is answered 400 and
\* stores nothing
C12_MonthsValidated ==
    [][/\ \A r \in expenses' : MonthsRule(r.frequency, r.months)
       /\ (/\ op'.name \in ExpenseRequests
           /\ Authenticated(op'.cookie)
           /\ ~MonthsRule(op'.form.frequency, op'.form.months))
          => op'.response.status = 400 /\ expenses' = expenses]_vars

\* C13: after every request each stored income and expense has an amount >= 0; an
\* add-expense or edit-expense request with a negative amount is answered 400 and
\* leaves the expenses unchanged
C13_AmountsNotNegative ==
    [][/\ \A r \in expenses' : r.amount >= 0
       /\ \A r \in income' : r.amount >= 0
       /\ (/\ op'.name \in ExpenseRequests
           /\ Authenticated(op'.cookie)
           /\ op'.form.amount < 0)
          => op'.response.status = 400 /\ expenses' = expenses]_vars

\* the frequencies a request asks to store
SubmittedFrequencies(call) ==
    IF call.name \in ExpenseRequests THEN {call.form.frequency}
    ELSE IF call.name = "POST /budget/income"
    THEN {call.form[i].frequency : i \in {j \in DOMAIN call.form :
                                             Strip(call.form[j].name) # ""}}
    ELSE {}

\* C14: add expense, edit expense and update income answer a frequency outside
\* the enum with a client error and store or change nothing, and every stored
\* row has a frequency of the enum
C14_FrequencyValidated ==
    [][/\ \A r \in expenses' : r.frequency \in VALID_FREQUENCIES
       /\ \A r \in income' : r.frequency \in VALID_FREQUENCIES
       /\ (/\ Authenticated(op'.cookie)
           /\ SubmittedFrequencies(op') \ VALID_FREQUENCIES # {})
          => /\ op'.response.status \in 400..499
             /\ expenses' = expenses
             /\ income' = income]_vars

\* the rows of an income form that are saved: those with a name
NamedRows(form) == {i \in DOMAIN form : Strip(form[i].name) # ""}

\* C14 (amended): add expense and edit expense answer a frequency outside the
\* enum with 400 and change nothing; update income stores such a row with the
\* frequency monthly; every stored row has a frequency of the enum
C14_FrequencyCoerced ==
    [][/\ \A r \in expenses' : r.frequency \in VALID_FREQUENCIES
       /\ \A r \in income' : r.frequency \in VALID_FREQUENCIES
       /\ (/\ op'.name \in ExpenseRequests
           /\ Authenticated(op'.cookie)
           /\ op'.form.frequency \notin VALID_FREQUENCIES)
          => /\ op'.response.status = 400
             /\ expenses' = expenses
             /\ income' = income
       /\ (/\ op'.name = "POST /budget/income"
           /\ Authenticated(op'.cookie)
           /\ \A i \in NamedRows(op'.form) : ~op'.form[i].amount.is_number
                                               => op'.form[i].amount.is_empty
           /\ \A i, j \in NamedRows(op'.form) :
                 i # j => Strip(op'.form[i].name) # Strip(op'.form[j].name))
          => /\ op'.response.status = 303
             /\ \A i \in NamedRows(op'.form) :
                   \E r \in income' :
                      /\ r.user_id = get_user_id(op'.cookie)
                      /\ r.person = Strip(op'.form[i].name)
                      /\ r.frequency = IF op'.form[i].frequency \in VALID_FREQUENCIES
                                       THEN op'.form[i].frequency ELSE "monthly"]_vars

\* an income sent with the frequency weekly is stored as monthly
C14_Witness ==
    /\ op.name = "POST /budget/income"
    /\ op.response.status = 303
    /\ \E i \in DOMAIN op.form : op.form[i].frequency = "weekly"
    /\ \E r \in income : r.user_id = 1 /\ r.person = "Alice" /\ r.frequency = "monthly"

----------------------------------------------------------------------------
(* Demo mode *)

\* the tables of the database
Tables == <<income, expenses, categories, accounts, users, tokens>>

\* C20: a request with the demo cookie (income update, expense add, edit and
\* delete, category add, edit and delete, email update) leaves every table
\* unchanged, and the income and expenses shown with the demo cookie are the demo
\* data whatever the tables hold
C20_DemoReadOnly ==
    [][op'.cookie = DEMO_SESSION_ID
        => /\ Tables' = Tables
           /\ op'.name = "GET /budget/income" =>
                 /\ Len(op'.incomes) = Len(DEMO_INCOME)
                 /\ \A i \in DOMAIN DEMO_INCOME :
                       <<op'.incomes[i].person, op'.incomes[i].amount,
                         op'.incomes[i].frequency>> = DEMO_INCOME[i]
           /\ op'.name = "GET /budget/expenses" =>
                 /\ Len(op'.expenses) = Len(DEMO_EXPENSES)
                 /\ \A i \in DOMAIN DEMO_EXPENSES :
                       <<op'.expenses[i].name, op'.expenses[i].category,
                         op'.expenses[i].amount, op'.expenses[i].frequency>>
                           = DEMO_EXPENSES[i]]_vars

\* after the logged-in user emptied the income table, a demo request that asks to
\* delete an expense that exists
C20_Witness ==
    /\ op.name = "POST /budget/expenses/delete"
    /\ op.cookie = DEMO_SESSION_ID
    /\ \E r \in expenses : r.id = op.id
    /\ now = MaxRequests
    /\ \A r \in income : r.user_id # 1

----------------------------------------------------------------------------
(* Isolation of the users in the database calls *)

\* SELECT ... FROM expenses WHERE id = ? AND user_id = ?: the row, or none
get_expense_by_id(expense_id, user_id) ==
    {r \in expenses : r.id = expense_id /\ r.user_id = user_id}

update_expense(expense_id, user_id, name, category, amount, frequency, account, months) ==
    /\ expenses' = db_update_expense(expenses, expense_id, user_id, name, category,
                                     amount, frequency, account, months).expenses
    /\ op' = [name |-> "update_expense", id |-> expense_id, user_id |-> user_id]
    /\ UNCHANGED <<tie, obj, ret, income, seq, restOfState>>

delete_expense(expense_id, user_id) ==
    /\ expenses' = db_delete_expense(expenses, expense_id, user_id)
    /\ op' = [name |-> "delete_expense", id |-> expense_id, user_id |-> user_id]
    /\ UNCHANGED <<tie, obj, ret, income, seq, restOfState>>

update_category(category_id, user_id, name, icon) ==
    /\ LET updated == db_update_category(categories, expenses, category_id, user_id,
                                         name, icon)
       IN  /\ categories' = updated.categories
           /\ expenses' = updated.expenses
           /\ op' = [name |-> "update_category", id |-> category_id,
                     user_id |-> user_id, new |-> name, raised |-> updated.raised,
                     returned |-> updated.returned]
    /\ UNCHANGED <<tie, obj, ret, income, seq, accounts, users, tokens, SESSIONS,
                   attempts, feedback_attempts, served, tz, now, proc>>

IsolationUsers == {1, 2}

\* the categories Bolig and Mad of each of the two users
IsolationCategories ==
    {CategoryRow(Len(DEFAULT_CATEGORIES) + 2 * u - 1, u, "Bolig", "house") :
        u \in IsolationUsers}
    \cup {CategoryRow(Len(DEFAULT_CATEGORIES) + 2 * u, u, "Mad", "utensils") :
             u \in IsolationUsers}

\* an expense of a user, its category given by name alone or by id too
IsolationExpenses ==
    {e \in [user_id : IsolationUsers, category : {"Bolig", "Mad"},
            category_id : {NoCategoryId} \cup {c.id : c \in IsolationCategories}] :
        e.category_id # NoCategoryId =>
            \E c \in IsolationCategories : /\ c.id = e.category_id
                                           /\ c.user_id = e.user_id
                                           /\ c.name = e.category}

\* tables of up to MaxIsolationExpenses expenses and one income of two users
InitIsolation ==
    /\ tie = [parity \in 0..1 |-> parity]
    /\ obj = [amount |-> 0, frequency |-> "monthly", months |-> None_months]
    /\ ret = <<>>
    /\ \E owners \in SUBSET IsolationUsers :
          /\ Cardinality(owners) <= 1
          /\ income = {IncomeRow(1, u, "Alice", 30000000, "monthly") : u \in owners}
          /\ seq = [income |-> Cardinality(owners), expenses |-> MaxIsolationExpenses,
                    categories |-> Len(DEFAULT_CATEGORIES) + Cardinality(IsolationCategories),
                    accounts |-> 0]
    /\ \E n \in 0..MaxIsolationExpenses :
          \E list \in [1..n -> IsolationExpenses] :
             expenses =
                 {[ExpenseRow(i, list[i].user_id, "Udgift", list[i].category,
                              100000 * i, "monthly", None_months)
                     EXCEPT !.category_id = list[i].category_id] : i \in 1..n}
    /\ categories = InitCategories \cup IsolationCategories
    /\ op = NoCall
    /\ accounts = {}
    /\ users = {}
    /\ tokens = {}
    /\ SESSIONS = <<>>
    /\ attempts = <<>>
    /\ feedback_attempts = <<>>
    /\ served = <<>>
    /\ now = 0
    /\ tz = 0
    /\ proc = <<>>

\* one writing call on each of the tables
NextIsolation ==
    \/ /\ op = NoCall
       /\ \E id \in 1..MaxIsolationExpenses, u \in IsolationUsers :
             update_expense(id, u, "Vand", "Mad", 250000, "quarterly", NoAccount,
                            None_months)
    \/ /\ op = NoCall
       /\ \E id \in 1..MaxIsolationExpenses, u \in IsolationUsers :
             delete_expense(id, u)
    \/ /\ op = NoCall
       /\ \E c \in IsolationCategories, u \in IsolationUsers,
             name \in {"Mad", "Fritid"} : update_category(c.id, u, name, "tag")
    \/ /\ op = NoCall
       /\ \E c \in IsolationCategories, u \in IsolationUsers :
             delete_category(c.id, u)
    \/ /\ op = NoCall
       /\ \E u \in IsolationUsers : update_income(u, "Alice", 1000000, "yearly")
    \/ /\ op = NoCall
       /\ \E u \in IsolationUsers : delete_all_income(u)

SpecIsolation == InitIsolation /\ [][NextIsolation]_vars

\* the rows of a user in the tables
RowsOf(user_id) ==
    <<{r \in income : r.user_id = user_id}, {r \in expenses : r.user_id = user_id},
      {c \in categories : c.user_id = user_id}>>

\* what the reading calls return for a user; get_category_totals is the loop
\* over get_all_expenses
ReadsOf(user_id) ==
    <<get_all_income(user_id), get_all_expenses(user_id),
      [id \in 1..MaxIsolationExpenses |-> get_expense_by_id(id, user_id)],
      get_total_income(user_id), get_total_monthly_expenses(user_id),
      [name \in {"Bolig", "Mad", "Fritid"} |-> get_category_usage_count(name, user_id)]>>

\* the call names an id that is no row of the caller
ForeignId ==
    \/ /\ op'.name \in {"update_expense", "delete_expense"}
       /\ ~\E r \in expenses : r.id = op'.id /\ r.user_id = op'.user_id
    \/ /\ op'.name \in {"update_category", "delete_category"}
       /\ ~\E c \in categories : c.id = op'.id /\ c.user_id = op'.user_id

\* C15: update_expense, delete_expense, update_category, delete_category,
\* update_income and delete_all_income called for a user change no row of another
\* user and nothing that get_all_income, get_all_expenses, get_expense_by_id, the
\* totals and get_category_usage_count return for another user; called with an id
\* that is not the caller's they change nothing
C15_UsersIsolated ==
    [][/\ \A u \in IsolationUsers \ {op'.user_id} :
             /\ RowsOf(u)' = RowsOf(u)
             /\ ReadsOf(u)' = ReadsOf(u)
             /\ CategoryTotalsLoop(get_all_expenses(u)', <<>>, tie)
                   = get_category_totals(u, tie)
       /\ ForeignId => <<income, expenses, categories>>' = <<income, expenses, categories>>
      ]_vars

\* user 1 deleted an expense of theirs while user 2 still has one, in the same
\* category
C15_Witness ==
    /\ op.name = "delete_expense"
    /\ op.user_id = 1
    /\ Cardinality(expenses) < MaxIsolationExpenses
    /\ \E r \in expenses : r.user_id = 2 /\ r.category = "Bolig"
    /\ get_category_usage_count("Bolig", 1) = 0
    /\ get_category_usage_count("Bolig", 2) = 1

----------------------------------------------------------------------------
(* Registering users from several processes *)

\* COLLATE NOCASE: the 26 upper case letters of ASCII are folded to lower case,
\* every other character is compared as it is
NOCASE(text) ==
    CASE text \in {"Anna", "ANNA"} -> "anna"
      [] text = "Søren" -> "søren"
      [] text = "SØREN" -> "sØren"
      [] OTHER -> text

Usernames == {"anna", "Anna", "ANNA", "Søren", "SØREN"}

Processes == 1..NumProcesses

\* a process outside create_user, with what its last call returned
Idle(returned) == [pc |-> "idle", username |-> "", returned |-> returned]

\* the connection of a process holds the write lock of the database from its
\* INSERT to its commit; the INSERT of another process waits for it
WriteLocked == \E q \in Processes : proc[q].pc = "inserted"

\* create_user: INSERT INTO users, refused by UNIQUE COLLATE NOCASE and then
\* answered None
create_user_insert(p, username) ==
    /\ proc[p].pc = "idle"
    /\ ~WriteLocked
    /\ IF \E u \in users : NOCASE(u.username) = NOCASE(username)
       THEN /\ proc' = [proc EXCEPT ![p] = Idle(NoUser)]
            /\ op' = [name |-> "create_user", process |-> p, username |-> username,
                      returned |-> NoUser]
            /\ UNCHANGED <<users, seq>>
       ELSE /\ users' = users \cup {UserRow(seq.users + 1, username, "secret", NoEmailHash)}
            /\ seq' = [seq EXCEPT !.users = @ + 1]
            /\ proc' = [proc EXCEPT ![p] = [pc |-> "inserted", username |-> username,
                                            returned |-> seq.users + 1]]
            /\ UNCHANGED op
    /\ UNCHANGED <<tie, obj, ret, income, expenses, categories, accounts, tokens,
                   SESSIONS, attempts, feedback_attempts, served, tz, now>>

\* create_user: conn.commit()
create_user_commit(p) ==
    /\ proc[p].pc = "inserted"
    /\ proc' = [proc EXCEPT ![p].pc = "committed"]
    /\ UNCHANGED <<tie, obj, ret, income, expenses, seq, op, categories, accounts, users,
                   tokens, SESSIONS, attempts, feedback_attempts, served, tz, now>>

\* create_user: ensure_default_categories(user_id) and return user_id
create_user_return(p) ==
    /\ proc[p].pc = "committed"
    /\ ~WriteLocked
    /\ categories' = categories \cup
          {CategoryRow(seq.categories + i, proc[p].returned, DEFAULT_CATEGORIES[i][1],
                       DEFAULT_CATEGORIES[i][2]) : i \in DOMAIN DEFAULT_CATEGORIES}
    /\ seq' = [seq EXCEPT !.categories = @ + Len(DEFAULT_CATEGORIES)]
    /\ proc' = [proc EXCEPT ![p] = Idle(proc[p].returned)]
    /\ op' = [name |-> "create_user", process |-> p, username |-> proc[p].username,
              returned |-> proc[p].returned]
    /\ UNCHANGED <<tie, obj, ret, income, expenses, accounts, users, tokens, SESSIONS,
                   attempts, feedback_attempts, served, tz, now>>

InitUsers ==
    /\ tie = [parity \in 0..1 |-> parity]
    /\ obj = [amount |-> 0, frequency |-> "monthly", months |-> None_months]
    /\ ret = <<>>
    /\ income = {}
    /\ expenses = {}
    /\ seq = [income |-> 0, expenses |-> 0, categories |-> Len(DEFAULT_CATEGORIES),
              users |-> 0]
    /\ op = NoCall
    /\ categories = InitCategories
    /\ accounts = {}
    /\ users = {}
    /\ tokens = {}
    /\ SESSIONS = <<>>
    /\ attempts = <<>>
    /\ feedback_attempts = <<>>
    /\ served = <<>>
    /\ now = 0
    /\ tz = 0
    /\ proc = [p \in Processes |-> Idle(NoUser)]

NextUsers ==
    \/ \E p \in Processes, username \in Usernames : create_user_insert(p, username)
    \/ \E p \in Processes : create_user_commit(p)
    \/ \E p \in Processes : create_user_return(p)

SpecUsers == InitUsers /\ [][NextUsers]_vars

\* C16: in every reachable state no two users have usernames that are equal
\* ignoring the case of their letters
C16_UsernamesUnique ==
    \A u1, u2 \in users : Lower(u1.username) = Lower(u2.username) => u1.id = u2.id

----------------------------------------------------------------------------
(* Password reset tokens *)

\* timedelta(hours=1), in seconds
Hour == 3600

\* the seconds between two looks at the clock
TickSeconds == 1800

\* len(password) of the passwords the forms carry
PasswordLen(password) ==
    CASE password = "short" -> 5
      [] password \in {"secret1", "secret2"} -> 7
      [] password \in {"newpass1", "newpass2"} -> 8

MinPasswordLen == 6

TokenRow(id, user_id, token_hash, expires_at, used) ==
    [id |-> id, user_id |-> user_id, token_hash |-> token_hash,
     expires_at |-> expires_at, used |-> used]

\* SELECT ... FROM users WHERE email_hash = ?: the first row, or none
db_get_user_by_email(table, email) ==
    LET found == {u \in table : u.email_hash = hash_email(email)}
    IN  {u \in found : \A o \in found : u.id <= o.id}

get_user_by_email(email) == db_get_user_by_email(users, email)

\* a new token that leaves the earlier tokens of the user as they are
db_create_password_reset_token_keep_old(table, last_id, user_id, token_hash, expires_at) ==
    [tokens |-> table \cup {TokenRow(last_id + 1, user_id, token_hash, expires_at, FALSE)},
     last_id |-> last_id + 1]

\* db.create_password_reset_token: UPDATE ... SET used = 1 WHERE user_id = ?, then
\* INSERT, in one transaction
db_create_password_reset_token(table, last_id, user_id, token_hash, expires_at) ==
    [tokens |-> {IF r.user_id = user_id THEN [r EXCEPT !.used = TRUE] ELSE r : r \in table}
                \cup {TokenRow(last_id + 1, user_id, token_hash, expires_at, FALSE)},
     last_id |-> last_id + 1]

\* a lookup that does not ask whether the token was used
get_valid_reset_token_ignoring_used(token_hash) ==
    LET found == {r \in tokens : r.token_hash = token_hash /\ r.expires_at > now}
    IN  {r \in found : \A o \in found : r.id <= o.id}

\* db.get_valid_reset_token: WHERE token_hash = ? AND used = 0 AND
\* expires_at > datetime('now'), the first row or none
get_valid_reset_token(token_hash) ==
    LET found == {r \in tokens : /\ r.token_hash = token_hash
                                 /\ ~r.used
                                 /\ r.expires_at > now}
    IN  {r \in found : \A o \in found : r.id <= o.id}

\* db.update_user_password: UPDATE users SET password_hash = ?, salt = ? WHERE id = ?
db_update_user_password(table, user_id, password) ==
    {IF u.id = user_id THEN [u EXCEPT !.password_hash = hash_password(password)] ELSE u :
       u \in table}

\* db.mark_reset_token_used: UPDATE password_reset_tokens SET used = 1 WHERE id = ?
db_mark_reset_token_used(table, token_id) ==
    {IF r.id = token_id THEN [r EXCEPT !.used = TRUE] ELSE r : r \in table}

\* secrets.token_urlsafe(32): a token no earlier call has drawn
NewToken == <<"token_urlsafe", seq.tokens + 1>>

\* the text the forgot-password page shows after a POST
success_message ==
    "Hvis emailen findes i vores system, har vi sendt et link til at nulstille din adgangskode."

\* a handler that tells the visitor when no user has the email
api_forgot_password_telling(user_table, token_table, last_id, email) ==
    LET user == db_get_user_by_email(user_table, Lower(Strip(email)))
        created == db_create_password_reset_token(
                       token_table, last_id, (CHOOSE u \in user : TRUE).id,
                       hash_token(NewToken), now + tz + Hour)
    IN  IF user # {}
        THEN [tokens |-> created.tokens, last_id |-> created.last_id,
              sent |-> <<[to |-> Lower(Strip(email)), token |-> NewToken]>>,
              response |-> [status |-> 200, template |-> "forgot-password.html",
                            success |-> success_message]]
        ELSE [tokens |-> token_table, last_id |-> last_id, sent |-> <<>>,
              response |-> [status |-> 200, template |-> "forgot-password.html",
                            success |-> ""]]

\* forgot_password of api.py on the users and tokens tables: the tokens table after
\* the request, the emails sent and the page returned
api_forgot_password(user_table, token_table, last_id, email) ==
    LET user == db_get_user_by_email(user_table, Lower(Strip(email)))
        created == db_create_password_reset_token(
                       token_table, last_id, (CHOOSE u \in user : TRUE).id,
                       hash_token(NewToken), now + tz + Hour)
        response == [status |-> 200, template |-> "forgot-password.html",
                     success |-> success_message]
    IN  IF user # {}
        THEN [tokens |-> created.tokens, last_id |-> created.last_id,
              sent |-> <<[to |-> Lower(Strip(email)), token |-> NewToken]>>,
              response |-> response]
        ELSE [tokens |-> token_table, last_id |-> last_id, sent |-> <<>>,
              response |-> response]

\* POST /budget/forgot-password
forgot_password(email) ==
    /\ seq.tokens < MaxTokens
    /\ LET outcome == api_forgot_password(users, tokens, seq.tokens, email)
       IN  /\ tokens' = outcome.tokens
           /\ seq' = [seq EXCEPT !.tokens = outcome.last_id]
           /\ op' = [name |-> "POST /budget/forgot-password", email |-> email,
                     response |-> outcome.response, sent |-> outcome.sent]
    /\ UNCHANGED <<tie, obj, ret, income, expenses, categories, accounts, users, SESSIONS,
                   attempts, feedback_attempts, served, now, tz, proc>>

\* POST /budget/reset-password/{token}
reset_password(token, password, password_confirm) ==
    /\ LET reset_token == get_valid_reset_token(hash_token(token))
           row == CHOOSE r \in reset_token : TRUE
           call == [name |-> "POST /budget/reset-password", token |-> token,
                    password |-> password, password_confirm |-> password_confirm]
       IN  IF reset_token = {}
           THEN /\ op' = [response |-> "invalid_token"] @@ call
                /\ UNCHANGED <<users, tokens>>
           ELSE IF PasswordLen(password) < MinPasswordLen \/ password # password_confirm
           THEN /\ op' = [response |-> "error"] @@ call
                /\ UNCHANGED <<users, tokens>>
           ELSE /\ users' = db_update_user_password(users, row.user_id, password)
                /\ tokens' = db_mark_reset_token_used(tokens, row.id)
                /\ op' = [response |-> "success"] @@ call
    /\ UNCHANGED <<tie, obj, ret, income, expenses, seq, categories, accounts, SESSIONS,
                   attempts, feedback_attempts, served, now, tz, proc>>

mark_reset_token_used(token_id) ==
    /\ tokens' = db_mark_reset_token_used(tokens, token_id)
    /\ op' = [name |-> "mark_reset_token_used", id |-> token_id]
    /\ UNCHANGED <<tie, obj, ret, income, expenses, seq, categories, accounts, users,
                   SESSIONS, attempts, feedback_attempts, served, now, tz, proc>>

\* time passes
Tick ==
    /\ now < MaxTicks * TickSeconds
    /\ now' = now + TickSeconds
    /\ op' = [name |-> "tick"]
    /\ UNCHANGED <<tie, obj, ret, income, expenses, seq, categories, accounts, users,
                   tokens, SESSIONS, attempts, feedback_attempts, served, tz, proc>>

\* the local time of the server is an hour behind UTC, UTC, or an hour ahead
TimeZones == {0 - Hour, 0, Hour}

PasswordForms == {<<"newpass1", "newpass1">>, <<"short", "short">>,
                  <<"newpass1", "newpass2">>}

ResetEmails == {" Alice@Example.dk ", "bob@example.dk", "nobody@example.dk"}

InitTokens ==
    /\ tie = [parity \in 0..1 |-> parity]
    /\ obj = [amount |-> 0, frequency |-> "monthly", months |-> None_months]
    /\ ret = <<>>
    /\ income = {}
    /\ expenses = {}
    /\ seq = [income |-> 0, expenses |-> 0, categories |-> Len(DEFAULT_CATEGORIES),
              users |-> 2, tokens |-> 0]
    /\ op = NoCall
    /\ categories = InitCategories
    /\ accounts = {}
    /\ users = {UserRow(1, "alice", "secret1", hash_email("alice@example.dk")),
                UserRow(2, "bob", "secret2", hash_email("bob@example.dk"))}
    /\ tokens = {}
    /\ SESSIONS = <<>>
    /\ attempts = <<>>
    /\ feedback_attempts = <<>>
    /\ served = <<>>
    /\ now = 0
    /\ tz \in TimeZones
    /\ proc = <<>>

NextTokens ==
    \/ \E email \in ResetEmails : forgot_password(email)
    \/ \E n \in 1..MaxTokens, form \in PasswordForms :
          reset_password(<<"token_urlsafe", n>>, form[1], form[2])
    \/ \E id \in 1..MaxTokens : mark_reset_token_used(id)
    \/ Tick

SpecTokens == InitTokens /\ [][NextTokens]_vars

\* the token of a user that was created last
Latest(user_id) ==
    {r \in tokens : r.user_id = user_id /\ \A o \in tokens : o.user_id = user_id => o.id <= r.id}

\* C17: each user has at most one unused reset token, the one created last; for
\* every earlier token of the user get_valid_reset_token returns None
C17_OneUnusedToken ==
    \A r \in tokens :
        r \notin Latest(r.user_id) => r.used /\ get_valid_reset_token(r.token_hash) = {}

\* a user with an earlier token and a later one that is still valid
C17_Witness ==
    \E r1, r2 \in tokens :
        /\ r1.user_id = r2.user_id
        /\ r1.id < r2.id
        /\ get_valid_reset_token(r2.token_hash) = {r2}

\* C18: a token that is used stays used; a POST /budget/reset-password with a used
\* token is answered as invalid and changes no password; a successful POST leaves
\* its token used
C18_TokenWorksOnce ==
    [][/\ \A r \in tokens : r.used => [r EXCEPT !.used = TRUE] \in tokens'
       /\ op'.name = "POST /budget/reset-password" =>
             /\ (\E r \in tokens : r.token_hash = hash_token(op'.token) /\ r.used)
                   => op'.response = "invalid_token" /\ users' = users
             /\ op'.response = "success"
                   => \E r \in tokens' : r.token_hash = hash_token(op'.token) /\ r.used
      ]_vars

\* a second POST with a token that has reset the password, before the token expires
C18_Witness ==
    /\ op.name = "POST /budget/reset-password"
    /\ op.response = "invalid_token"
    /\ op.password = op.password_confirm
    /\ PasswordLen(op.password) >= MinPasswordLen
    /\ \E r \in tokens, u \in users :
          /\ r.token_hash = hash_token(op.token)
          /\ r.used
          /\ r.expires_at > now
          /\ u.id = r.user_id
          /\ u.password_hash = hash_password("newpass1")
          /\ \A o \in tokens : o.user_id = r.user_id => o = r

----------------------------------------------------------------------------
(* The rate limit of the login *)

\* RateLimitMiddleware, max_attempts=5, window_seconds=300
max_attempts == 5
window_seconds == 300

\* the seconds between two POSTs that do not come at the same time
LoginTickSeconds == 150

ClientIps == {"10.0.0.1", "10.0.0.2"}

\* self.attempts[client_ip] of the defaultdict(list)
Recorded(client_ip) ==
    IF client_ip \in DOMAIN attempts THEN attempts[client_ip] ELSE <<>>

\* the POSTs of the ip that were passed on to the login handler, so far
Served(client_ip) ==
    IF client_ip \in DOMAIN served THEN served[client_ip] ELSE <<>>

\* [t for t in attempts if now - t < self.window_seconds]
RECURSIVE Recent(_)
Recent(times) ==
    IF times = <<>> THEN <<>>
    ELSE IF now - Head(times) < window_seconds
    THEN <<Head(times)>> \o Recent(Tail(times))
    ELSE Recent(Tail(times))

\* a limit that lets one more attempt through
dispatch_one_more(client_ip, path, method) ==
    /\ IF path = "/budget/login" /\ method = "POST"
       THEN LET recent == Recent(Recorded(client_ip))
            IN  IF recent # <<>> /\ Len(recent) > max_attempts
                THEN /\ attempts' = (client_ip :> recent) @@ attempts
                     /\ op' = [name |-> "dispatch", ip |-> client_ip, path |-> path,
                               method |-> method, status |-> 429]
                     /\ UNCHANGED served
                ELSE /\ attempts' = (client_ip :> Append(recent, now)) @@ attempts
                     /\ served' = (client_ip :> Append(Served(client_ip), now)) @@ served
                     /\ op' = [name |-> "dispatch", ip |-> client_ip, path |-> path,
                               method |-> method, status |-> 200]
       ELSE /\ op' = [name |-> "dispatch", ip |-> client_ip, path |-> path,
                      method |-> method, status |-> 200]
            /\ UNCHANGED <<attempts, feedback_attempts, served>>
    /\ UNCHANGED <<tie, obj, ret, income, expenses, seq, categories, accounts, users,
                   tokens, SESSIONS, feedback_attempts, now, tz, proc>>

\* RateLimitMiddleware.dispatch: the old attempts of the ip are dropped; with
\* max_attempts left the answer is 429, else the attempt is recorded and the
\* request passed on (status 200 stands for whatever the handler answers)
dispatch(client_ip, path, method) ==
    /\ IF path = "/budget/login" /\ method = "POST"
       THEN LET recent == Recent(Recorded(client_ip))
            IN  IF recent # <<>> /\ Len(recent) >= max_attempts
                THEN /\ attempts' = (client_ip :> recent) @@ attempts
                     /\ op' = [name |-> "dispatch", ip |-> client_ip, path |-> path,
                               method |-> method, status |-> 429]
                     /\ UNCHANGED served
                ELSE /\ attempts' = (client_ip :> Append(recent, now)) @@ attempts
                     /\ served' = (client_ip :> Append(Served(client_ip), now)) @@ served
                     /\ op' = [name |-> "dispatch", ip |-> client_ip, path |-> path,
                               method |-> method, status |-> 200]
       ELSE /\ op' = [name |-> "dispatch", ip |-> client_ip, path |-> path,
                      method |-> method, status |-> 200]
            /\ UNCHANGED <<attempts, feedback_attempts, served>>
    /\ UNCHANGED <<tie, obj, ret, income, expenses, seq, categories, accounts, users,
                   tokens, SESSIONS, feedback_attempts, now, tz, proc>>

\* time.time() moves on
LoginTick ==
    /\ now < MaxLoginTicks * LoginTickSeconds
    /\ now' = now + LoginTickSeconds
    /\ op' = [name |-> "tick"]
    /\ UNCHANGED <<tie, obj, ret, income, expenses, seq, categories, accounts, users,
                   tokens, SESSIONS, attempts, feedback_attempts, served, tz, proc>>

InitRateLimit ==
    /\ tie = [parity \in 0..1 |-> parity]
    /\ obj = [amount |-> 0, frequency |-> "monthly", months |-> None_months]
    /\ ret = <<>>
    /\ income = {}
    /\ expenses = {}
    /\ seq = [income |-> 0, expenses |-> 0]
    /\ op = NoCall
    /\ InitRestOfState

NextRateLimit ==
    \/ \E client_ip \in ClientIps, method \in {"GET", "POST"} :
          dispatch(client_ip, "/budget/login", method)
    \/ LoginTick

SpecRateLimit == InitRateLimit /\ [][NextRateLimit]_vars

\* the POSTs in a log of passed on POSTs that fall in the window_seconds up to
\* and with the time t
ServedInWindow(log, t) ==
    {i \in DOMAIN log : t - log[i] < window_seconds /\ log[i] <= t}

\* C19: of the POSTs to /budget/login of one ip at most 5 reach the login handler
\* in any window of 300 seconds; with 5 in the window a further POST is answered
\* 429, is not passed on and is not recorded as an attempt
C19_LoginRateLimit ==
    [][/\ \A client_ip \in DOMAIN served' :
             Cardinality(ServedInWindow(served'[client_ip], now')) <= max_attempts
       /\ (/\ op'.name = "dispatch"
           /\ op'.path = "/budget/login"
           /\ op'.method = "POST"
           /\ Cardinality(ServedInWindow(Served(op'.ip), now)) >= max_attempts)
          => /\ op'.status = 429
             /\ served' = served
             /\ attempts'[op'.ip] = Recent(Recorded(op'.ip))
       /\ (op'.name = "dispatch" /\ op'.status = 429) => served' = served]_vars

\* five POSTs of an ip were passed on at one time, and 300 seconds later a sixth
\* of the ip is
C19_Witness ==
    /\ op.name = "dispatch"
    /\ op.method = "POST"
    /\ op.status = 200
    /\ now = window_seconds
    /\ Len(Served(op.ip)) > max_attempts
    /\ \A i \in 1..max_attempts : Served(op.ip)[i] = 0

----------------------------------------------------------------------------
(* The answer of POST /budget/forgot-password *)

\* the users table without the user that has the email, if there is one
Unregistered(email) ==
    {u \in users : u.email_hash # hash_email(Lower(Strip(email)))}

\* C21: the response of POST /budget/forgot-password is the same whether or not the
\* email belongs to a user: the run on the users table and the run on the table
\* without the owner of the email return the same page, and the page of every
\* request served is that page
C21_SameResponse ==
    /\ \A email \in ResetEmails :
          api_forgot_password(users, tokens, seq.tokens, email).response
            = api_forgot_password(Unregistered(email), tokens, seq.tokens, email).response
    /\ op.name = "POST /budget/forgot-password" =>
          op.response = api_forgot_password({}, tokens, seq.tokens, op.email).response

\* a request for an email of no user, after a request that sent a token to a user
C21_Witness ==
    /\ op.name = "POST /budget/forgot-password"
    /\ op.sent = <<>>
    /\ get_user_by_email(Lower(Strip(op.email))) = {}
    /\ \E email \in ResetEmails :
          /\ get_user_by_email(Lower(Strip(email))) # {}
          /\ api_forgot_password(users, tokens, seq.tokens, email).sent # <<>>
    /\ tokens # {}

----------------------------------------------------------------------------
(* Renaming a category or an account *)

update_account(account_id, user_id, name) ==
    /\ LET updated == db_update_account(accounts, expenses, account_id, user_id, name)
       IN  /\ accounts' = updated.accounts
           /\ expenses' = updated.expenses
           /\ op' = [name |-> "update_account", id |-> account_id,
                     user_id |-> user_id, new |-> name, raised |-> updated.raised,
                     returned |-> updated.returned]
    /\ UNCHANGED <<tie, obj, ret, income, seq, categories, users, tokens, SESSIONS,
                   attempts, feedback_attempts, served, tz, now, proc>>

\* the accounts Budget and Opsparing of each of the two users
RenameAccounts ==
    {AccountRow(2 * u - 1, u, "Budget") : u \in IsolationUsers}
    \cup {AccountRow(2 * u, u, "Opsparing") : u \in IsolationUsers}

\* an expense of a user in one of two categories, on an account or on none
RenameExpenses ==
    [user_id : IsolationUsers, category : {"Bolig", "Mad"},
     account : {NoAccount, "Budget", "Opsparing"}]

\* the categories and accounts of two users and up to MaxRenameExpenses expenses
InitRename ==
    /\ tie = [parity \in 0..1 |-> parity]
    /\ obj = [amount |-> 0, frequency |-> "monthly", months |-> None_months]
    /\ ret = <<>>
    /\ income = {}
    /\ seq = [income |-> 0, expenses |-> MaxRenameExpenses,
              categories |-> Len(DEFAULT_CATEGORIES) + Cardinality(IsolationCategories),
              accounts |-> Cardinality(RenameAccounts)]
    /\ \E n \in 0..MaxRenameExpenses :
          \E list \in [1..n -> RenameExpenses] :
             expenses =
                 {[ExpenseRow(i, list[i].user_id, "Udgift", list[i].category,
                              100000 * i, "monthly", None_months)
                     EXCEPT !.account = list[i].account] : i \in 1..n}
    /\ categories = InitCategories \cup IsolationCategories
    /\ op = NoCall
    /\ accounts = RenameAccounts
    /\ users = {}
    /\ tokens = {}
    /\ SESSIONS = <<>>
    /\ attempts = <<>>
    /\ feedback_attempts = <<>>
    /\ served = <<>>
    /\ now = 0
    /\ tz = 0
    /\ proc = <<>>

\* one rename on each of the tables
NextRename ==
    \/ /\ op = NoCall
       /\ \E c \in IsolationCategories, u \in IsolationUsers, name \in {"Mad", "Fritid"} :
             update_category(c.id, u, name, "tag")
    \/ /\ op = NoCall
       /\ \E a \in RenameAccounts, u \in IsolationUsers, name \in {"Opsparing", "Ferie"} :
             update_account(a.id, u, name)

SpecRename == InitRename /\ [][NextRename]_vars

\* the expenses after the category old of the user is renamed to new
CategoryRenamed(exps, user_id, old, new) ==
    {IF r.user_id = user_id /\ r.category = old THEN [r EXCEPT !.category = new] ELSE r :
       r \in exps}

\* the expenses after the account old of the user is renamed to new
AccountRenamed(exps, user_id, old, new) ==
    {IF r.user_id = user_id /\ r.account = old THEN [r EXCEPT !.account = new] ELSE r :
       r \in exps}

\* the call renamed the rows of the caller that had the old name, and no other
\* row, and returned their number, or was made for a row of another user, changed
\* nothing and returned 0
RenameDone(table, column, renamed(_, _, _, _)) ==
    LET row == {c \in table : c.id = op'.id /\ c.user_id = op'.user_id}
        old == (CHOOSE c \in row : TRUE).name
    IN  /\ row # {} /\ old # op'.new =>
              /\ op'.raised = ""
              /\ expenses' = renamed(expenses, op'.user_id, old, op'.new)
              /\ op'.returned =
                    Cardinality({r \in expenses : /\ r.user_id = op'.user_id
                                                  /\ column[r] = old})
        /\ row = {} =>
              /\ op'.raised = ""
              /\ op'.returned = 0
              /\ <<expenses, categories, accounts>>' = <<expenses, categories, accounts>>

\* the call is made for a row of the caller and the new name is the name of
\* another row of the caller
NameTaken(table) ==
    /\ \E c \in table : c.user_id = op'.user_id /\ c.id = op'.id
    /\ \E c \in table : c.user_id = op'.user_id /\ c.name = op'.new /\ c.id # op'.id

\* C22 as stated: update_category on a category of u whose name differs from new
\* renames exactly the expenses of u that had the old name and returns their
\* number; on a category of another user it changes nothing and returns 0;
\* update_account does the same for accounts
C22_RenameFollowed ==
    [][/\ op'.name = "update_category" =>
             RenameDone(categories, [r \in expenses |-> r.category], CategoryRenamed)
       /\ op'.name = "update_account" =>
             RenameDone(accounts, [r \in expenses |-> r.account], AccountRenamed)
      ]_vars

\* C22, amended: the same, when new is not the name of another category (account)
\* of u; when it is, the call raises IntegrityError and changes nothing
C22_RenameFollowedUnlessTaken ==
    [][/\ op'.name = "update_category" =>
             IF NameTaken(categories)
             THEN /\ op'.raised = "IntegrityError"
                  /\ <<expenses, categories, accounts>>'
                        = <<expenses, categories, accounts>>
             ELSE RenameDone(categories, [r \in expenses |-> r.category],
                             CategoryRenamed)
       /\ op'.name = "update_account" =>
             IF NameTaken(accounts)
             THEN /\ op'.raised = "IntegrityError"
                  /\ <<expenses, categories, accounts>>'
                        = <<expenses, categories, accounts>>
             ELSE RenameDone(accounts, [r \in expenses |-> r.account], AccountRenamed)
      ]_vars

\* a rename returned 1 while an expense of the other user keeps the old name
C22_Witness ==
    /\ op.name \in {"update_category", "update_account"}
    /\ op.raised = ""
    /\ op.returned = 1
    /\ Cardinality(expenses) = 2
    /\ \E r \in expenses :
          /\ r.user_id # op.user_id
          /\ \/ op.name = "update_category" /\ r.category = "Bolig" /\ op.new = "Fritid"
             \/ op.name = "update_account" /\ r.account = "Budget" /\ op.new = "Ferie"
    /\ \E r \in expenses :
          /\ r.user_id = op.user_id
          /\ \/ op.name = "update_category" /\ r.category = op.new
             \/ op.name = "update_account" /\ r.account = op.new


----------------------------------------------------------------------------
(* Requests without a session *)

\* the cookie is the demo marker or a token whose hash is in SESSIONS
KnownCookie(cookie) ==
    cookie = DEMO_SESSION_ID \/ hash_token(cookie) \in DOMAIN SESSIONS

\* the declared parameters of the handler cannot be filled from the request
Unprocessable ==
    /\ op'.name \in {"POST /budget/expenses/add", "POST /budget/expenses/edit"}
    /\ ~op'.form.amount_is_float

\* C23 as stated: every request to a protected page or operation whose cookie is
\* neither the demo marker nor a token of SESSIONS is answered with 303 to
\* /budget/login and changes no stored data
C23_LoginRequiredAlways ==
    [][~KnownCookie(op'.cookie) =>
          /\ op'.response = Response(303, "/budget/login")
          /\ Tables' = Tables
      ]_vars

\* C23, amended: such a request changes no stored data and no session, and is
\* answered with 303 to /budget/login, unless its form cannot fill the parameters
\* the handler declares: then the answer is 422, given before the handler runs
C23_LoginRequired ==
    [][~KnownCookie(op'.cookie) =>
          /\ Tables' = Tables
          /\ SESSIONS' = SESSIONS
          /\ op'.response = IF Unprocessable THEN Response(422, "")
                            ELSE Response(303, "/budget/login")
      ]_vars

\* after a request that changed the expenses of the logged-in user, a well-formed
\* POST with a cookie that is no session, for an expense that exists
C23_Witness ==
    /\ op.name = "POST /budget/expenses/edit"
    /\ op.cookie = "expired"
    /\ op.form.amount_is_float
    /\ op.form.frequency \in VALID_FREQUENCIES
    /\ op.response = Response(303, "/budget/login")
    /\ \E r \in expenses : r.id = op.id /\ r.name # op.form.name
    /\ \E r \in expenses : r.user_id = 1 /\ r.name = "Vand"

----------------------------------------------------------------------------
(* Sessions: login, register and logout *)

\* secrets.token_urlsafe(32), one after the other: no two calls draw the same
SessionTokens == <<"tok1", "tok2", "tok3", "tok4">>

MinUsernameLen == 3

\* len(username) of the names the forms carry
UsernameLen(username) ==
    CASE username = "al" -> 2
      [] username \in {"Anna", "ANNA", "anna"} -> 4

\* db.authenticate_user: get_user_by_username (the column is COLLATE NOCASE) and
\* verify_password; the user row or none
authenticate_user(username, password) ==
    {u \in users : /\ NOCASE(u.username) = NOCASE(username)
                   /\ u.password_hash = hash_password(password)}

\* db.update_last_login: UPDATE users SET last_login = CURRENT_TIMESTAMP WHERE id = ?
db_update_last_login(table, user_id) ==
    {IF u.id = user_id THEN [last_login |-> now] @@ u ELSE u : u \in table}

\* db.create_user called by one request at a time: the user and the default
\* categories, or None when the name is taken
db_create_user(username, password) ==
    IF \E u \in users : NOCASE(u.username) = NOCASE(username)
    THEN [returned |-> NoUser, users |-> users, categories |-> categories, seq |-> seq]
    ELSE [returned |-> seq.users + 1,
          users |-> users \cup {UserRow(seq.users + 1, username, password, NoEmailHash)},
          categories |-> categories \cup
              {CategoryRow(seq.categories + i, seq.users + 1, DEFAULT_CATEGORIES[i][1],
                           DEFAULT_CATEGORIES[i][2]) : i \in DOMAIN DEFAULT_CATEGORIES},
          seq |-> [seq EXCEPT !.users = @ + 1,
                              !.categories = @ + Len(DEFAULT_CATEGORIES)]]

\* POST /budget/login
api_login(form) ==
    /\ now < MaxSessionRequests
    /\ seq.sessions < MaxSessions
    /\ now' = now + 1
    /\ LET user == authenticate_user(form.username, form.password)
           user_id == (CHOOSE u \in user : TRUE).id
           session_id == SessionTokens[seq.sessions + 1]
       IN  IF user # {}
           THEN /\ users' = db_update_last_login(users, user_id)
                /\ SESSIONS' = (hash_token(session_id) :> user_id) @@ SESSIONS
                /\ seq' = [seq EXCEPT !.sessions = @ + 1]
                /\ op' = [name |-> "POST /budget/login", cookie |-> NoCookie,
                          form |-> form, response |-> Response(303, "/budget/"),
                          set_cookie |-> session_id]
           ELSE /\ op' = [name |-> "POST /budget/login", cookie |-> NoCookie,
                          form |-> form, response |-> Response(200, ""),
                          set_cookie |-> NoCookie]
                /\ UNCHANGED <<users, SESSIONS, seq>>
    /\ UNCHANGED <<tie, obj, ret, income, expenses, categories, accounts, tokens,
                   attempts, feedback_attempts, served, tz, proc>>

\* POST /budget/register
api_register(form) ==
    /\ now < MaxSessionRequests
    /\ seq.sessions < MaxSessions
    /\ now' = now + 1
    /\ LET created == db_create_user(form.username, form.password)
           session_id == SessionTokens[seq.sessions + 1]
       IN  IF \/ UsernameLen(form.username) < MinUsernameLen
              \/ PasswordLen(form.password) < MinPasswordLen
              \/ form.password # form.password_confirm
              \/ created.returned = NoUser
           THEN /\ op' = [name |-> "POST /budget/register", cookie |-> NoCookie,
                          form |-> form, response |-> Response(200, ""),
                          set_cookie |-> NoCookie]
                /\ UNCHANGED <<users, categories, SESSIONS, seq>>
           ELSE /\ users' = created.users
                /\ categories' = created.categories
                /\ SESSIONS' = (hash_token(session_id) :> created.returned) @@ SESSIONS
                /\ seq' = [created.seq EXCEPT !.sessions = @ + 1]
                /\ op' = [name |-> "POST /budget/register", cookie |-> NoCookie,
                          form |-> form, response |-> Response(303, "/budget/"),
                          set_cookie |-> session_id]
    /\ UNCHANGED <<tie, obj, ret, income, expenses, accounts, tokens, attempts,
                   feedback_attempts, served, tz, proc>>

\* a logout that deletes the cookie of the browser and keeps the session
api_logout_cookie_only(cookie) ==
    /\ now < MaxSessionRequests
    /\ now' = now + 1
    /\ op' = [name |-> "GET /budget/logout", cookie |-> cookie,
              response |-> Response(303, "/budget/login"), set_cookie |-> NoCookie]
    /\ UNCHANGED <<tie, obj, ret, income, expenses, seq, categories, accounts, users,
                   tokens, SESSIONS, attempts, feedback_attempts, served, tz, proc>>

\* GET /budget/logout: del SESSIONS[hashed] when the cookie is a session
api_logout(cookie) ==
    /\ now < MaxSessionRequests
    /\ now' = now + 1
    /\ SESSIONS' = IF cookie # NoCookie /\ hash_token(cookie) \in DOMAIN SESSIONS
                   THEN [h \in DOMAIN SESSIONS \ {hash_token(cookie)} |-> SESSIONS[h]]
                   ELSE SESSIONS
    /\ op' = [name |-> "GET /budget/logout", cookie |-> cookie,
              response |-> Response(303, "/budget/login"), set_cookie |-> NoCookie]
    /\ UNCHANGED <<tie, obj, ret, income, expenses, seq, categories, accounts, users,
                   tokens, attempts, feedback_attempts, served, tz, proc>>

\* GET /budget/login: a logged-in user is sent on to the dashboard
api_login_page(cookie) ==
    /\ now < MaxSessionRequests
    /\ now' = now + 1
    /\ op' = [name |-> "GET /budget/login", cookie |-> cookie,
              response |-> IF get_user_id(cookie) # NoUser THEN Response(303, "/budget/")
                           ELSE Response(200, ""),
              set_cookie |-> NoCookie]
    /\ UNCHANGED <<tie, obj, ret, income, expenses, seq, categories, accounts, users,
                   tokens, SESSIONS, attempts, feedback_attempts, served, tz, proc>>

LoginForms ==
    {[username |-> "ANNA", password |-> "secret1"],
     [username |-> "anna", password |-> "secret2"],
     [username |-> "bob", password |-> "secret2"]}

RegisterForms ==
    {[username |-> "Anna", password |-> "secret1", password_confirm |-> "secret1"],
     [username |-> "al", password |-> "secret1", password_confirm |-> "secret1"],
     [username |-> "Anna", password |-> "short", password_confirm |-> "short"],
     [username |-> "Anna", password |-> "secret1", password_confirm |-> "secret2"]}

SessionCookies ==
    {NoCookie, DEMO_SESSION_ID} \cup {SessionTokens[n] : n \in 1..MaxSessions}

\* the server starts with the user bob and no session
InitSessions ==
    /\ tie = [parity \in 0..1 |-> parity]
    /\ obj = [amount |-> 0, frequency |-> "monthly", months |-> None_months]
    /\ ret = <<>>
    /\ income = {}
    /\ expenses = {}
    /\ seq = [income |-> 0, expenses |-> 0, categories |-> Len(DEFAULT_CATEGORIES),
              users |-> 1, tokens |-> 0, sessions |-> 0]
    /\ op = NoCall
    /\ categories = InitCategories
    /\ accounts = {}
    /\ users = {UserRow(1, "bob", "secret2", NoEmailHash)}
    /\ tokens = {}
    /\ SESSIONS = <<>>
    /\ attempts = <<>>
    /\ feedback_attempts = <<>>
    /\ served = <<>>
    /\ now = 0
    /\ tz = 0
    /\ proc = <<>>

NextSessions ==
    \/ \E form \in LoginForms : api_login(form)
    \/ \E form \in RegisterForms : api_register(form)
    \/ \E cookie \in SessionCookies : api_logout(cookie)
    \/ \E cookie \in SessionCookies : api_login_page(cookie)

SpecSessions == InitSessions /\ [][NextSessions]_vars

\* the user a cookie resolves to in the sessions, as get_user_id reads them
SessionUser(sessions, cookie) ==
    IF cookie = NoCookie \/ cookie = DEMO_SESSION_ID THEN NoUser
    ELSE IF hash_token(cookie) \in DOMAIN sessions THEN sessions[hash_token(cookie)]
    ELSE NoUser

\* the request is a logout with the token
LogoutWith(token) == op.name = "GET /budget/logout" /\ op.cookie = token

\* C24: a token issued by login or register is new, and resolves to the user that
\* logged in or registered; a token that resolves to a user resolves to the same
\* user after every request that is not a logout with it; after a logout with
\* it (seq.sessions counts the tokens issued) the token never again authenticates
\* or resolves to a user; the logout of one token leaves every other session as it
\* was
C24_SessionLifecycle ==
    /\ [][/\ op'.set_cookie # NoCookie =>
                /\ ~check_auth(op'.set_cookie)
                /\ \E u \in users' :
                      /\ NOCASE(u.username) = NOCASE(op'.form.username)
                      /\ u.password_hash = hash_password(op'.form.password)
                      /\ SessionUser(SESSIONS', op'.set_cookie) = u.id
          /\ \A n \in 1..MaxSessions :
                /\ get_user_id(SessionTokens[n]) # NoUser
                /\ ~LogoutWith(SessionTokens[n])'
                => /\ get_user_id(SessionTokens[n])' = get_user_id(SessionTokens[n])
                   /\ check_auth(SessionTokens[n])'
          /\ op'.name = "GET /budget/logout" /\ op'.cookie \notin {NoCookie, DEMO_SESSION_ID}
                => /\ hash_token(op'.cookie) \notin DOMAIN SESSIONS'
                   /\ SessionUser(SESSIONS', op'.cookie) = NoUser
         ]_vars
    /\ \A n \in 1..MaxSessions :
          [](LogoutWith(SessionTokens[n]) /\ n <= seq.sessions
                => [](/\ ~check_auth(SessionTokens[n])
                      /\ get_user_id(SessionTokens[n]) = NoUser))

\* two users are logged in, one of them logs out and the other is still let in to
\* the dashboard from the login page
C24_Witness ==
    /\ op.name = "GET /budget/login"
    /\ op.response = Response(303, "/budget/")
    /\ op.cookie = "tok2"
    /\ get_user_id("tok2") = 2
    /\ ~check_auth("tok1")
    /\ seq.sessions = 2
    /\ now = 4

----------------------------------------------------------------------------
(* What POST /budget/income stores *)

\* a POST /budget/income of a logged-in user that was answered with the redirect
\* to the dashboard
IncomeSaved ==
    /\ op'.name = "POST /budget/income"
    /\ Authenticated(op'.cookie)
    /\ op'.response = Response(303, "/budget/")

\* (person, amount, frequency) of the income rows of a user
StoredIncome(table, user_id) ==
    {<<r.person, r.amount, r.frequency>> : r \in {x \in table : x.user_id = user_id}}

\* C25 as stated: after a successful POST /budget/income the rows of the user are
\* one row (trimmed name, amount, frequency) for every submitted row with a name,
\* and no row stored before the request remains
C25_IncomeReplaced ==
    [][IncomeSaved =>
          LET user_id == get_user_id(op'.cookie)
              form == op'.form
          IN  /\ StoredIncome(income', user_id) =
                    {<<Strip(form[i].name), form[i].amount.value, form[i].frequency>> :
                       i \in NamedRows(form)}
              /\ Cardinality({r \in income' : r.user_id = user_id})
                    = Cardinality(NamedRows(form))
              /\ \A r \in income' : r.user_id = user_id => r \notin income /\ r.id > seq.income
      ]_vars

\* C25, amended: the same, with the frequency monthly in the row of a submitted
\* frequency outside the enum and the amount 0 in the row of an empty amount
C25_IncomeReplacedCoerced ==
    [][IncomeSaved =>
          LET user_id == get_user_id(op'.cookie)
              form == op'.form
          IN  /\ StoredIncome(income', user_id) =
                    {<<Strip(form[i].name),
                       IF form[i].amount.is_empty THEN 0 ELSE form[i].amount.value,
                       IF form[i].frequency \in VALID_FREQUENCIES
                       THEN form[i].frequency ELSE "monthly">> : i \in NamedRows(form)}
              /\ Cardinality({r \in income' : r.user_id = user_id})
                    = Cardinality(NamedRows(form))
              /\ \A r \in income' : r.user_id = user_id => r \notin income /\ r.id > seq.income
              /\ \A r \in income : r.user_id # user_id => r \in income'
      ]_vars

\* the user had the row Alice and sent Alice, with spaces around the name, and Bob
C25_Witness ==
    /\ op.name = "POST /budget/income"
    /\ op.cookie = "tok1"
    /\ op.response = Response(303, "/budget/")
    /\ Len(op.form) = 2
    /\ seq.income = 4
    /\ StoredIncome(income, 1) = {<<"Alice", 30000000, "monthly">>, <<"Bob", 0, "yearly">>}
    /\ \E r \in income : r.user_id = 2

\* C26: a POST /budget/income of a logged-in user that fails, on an amount that is
\* not a number or on two rows of the same name, leaves the income table as it
\* was before the request
C26_FailedIncomeUnchanged ==
    [][/\ op'.name = "POST /budget/income"
       /\ Authenticated(op'.cookie)
       /\ op'.response.status >= 400
       => income' = income
      ]_vars

\* a form with an amount that is not a number was answered 500 and the income of
\* the user is still there
C26_ParseFailureWitness ==
    /\ op.name = "POST /budget/income"
    /\ op.cookie = "tok1"
    /\ op.response.status = 500
    /\ \E i \in DOMAIN op.form : ~op.form[i].amount.is_number /\ ~op.form[i].amount.is_empty
    /\ \E r \in income : r.user_id = 1 /\ r.id = 1

----------------------------------------------------------------------------
(* delete_category and delete_account beside calls that write expenses *)

\* a process that is in no database call
Waiting == [pc |-> "idle"]

\* a connection has run an INSERT, UPDATE or DELETE and not yet committed: it holds
\* the write lock of the database, and the writes of the other connections wait
RaceLocked ==
    \E q \in Processes : proc[q].pc \in {"deleted", "inserted", "updated"}

\* the table a delete call works on
RaceTable(kind) == IF kind = "delete_category" THEN categories ELSE accounts

\* the expenses of the user that use the category (by id or by name) or the account
RaceUses(kind, id, name, user_id) ==
    IF kind = "delete_category"
    THEN {r \in expenses : (r.category_id = id \/ r.category = name) /\ r.user_id = user_id}
    ELSE {r \in expenses : r.account = name /\ r.user_id = user_id}

\* delete_category / delete_account: SELECT name FROM ... WHERE id = ? AND user_id = ?
delete_select(p, kind, id, user_id) ==
    /\ proc[p].pc = "idle"
    /\ LET row == {c \in RaceTable(kind) : c.id = id /\ c.user_id = user_id}
       IN  IF row = {}
           THEN /\ op' = [name |-> kind, process |-> p, id |-> id, user_id |-> user_id,
                          returned |-> FALSE]
                /\ UNCHANGED proc
           ELSE /\ proc' = [proc EXCEPT ![p] =
                               [pc |-> "selected", kind |-> kind, id |-> id,
                                user_id |-> user_id,
                                row_name |-> (CHOOSE c \in row : TRUE).name]]
                /\ op' = [name |-> "SELECT name", process |-> p]
    /\ UNCHANGED <<tie, obj, ret, income, expenses, seq, categories, accounts, users,
                   tokens, SESSIONS, attempts, feedback_attempts, served, tz, now>>

\* delete_category / delete_account: SELECT COUNT(*) FROM expenses WHERE ...
delete_count(p) ==
    /\ proc[p].pc = "selected"
    /\ LET count == Cardinality(RaceUses(proc[p].kind, proc[p].id, proc[p].row_name,
                                         proc[p].user_id))
       IN  IF count > 0
           THEN /\ proc' = [proc EXCEPT ![p] = Waiting]
                /\ op' = [name |-> proc[p].kind, process |-> p, id |-> proc[p].id,
                          user_id |-> proc[p].user_id, returned |-> FALSE]
           ELSE /\ proc' = [proc EXCEPT ![p].pc = "counted"]
                /\ op' = [name |-> "SELECT COUNT(*)", process |-> p]
    /\ UNCHANGED <<tie, obj, ret, income, expenses, seq, categories, accounts, users,
                   tokens, SESSIONS, attempts, feedback_attempts, served, tz, now>>

\* delete_category / delete_account: DELETE FROM ... WHERE id = ? AND user_id = ?,
\* the first statement of the call that opens a transaction
delete_delete(p) ==
    /\ proc[p].pc = "counted"
    /\ ~RaceLocked
    /\ proc' = [proc EXCEPT ![p].pc = "deleted"]
    /\ op' = [name |-> "DELETE", process |-> p]
    /\ UNCHANGED <<tie, obj, ret, income, expenses, seq, categories, accounts, users,
                   tokens, SESSIONS, attempts, feedback_attempts, served, tz, now>>

\* delete_category / delete_account: conn.commit() and return True
delete_commit(p) ==
    /\ proc[p].pc = "deleted"
    /\ IF proc[p].kind = "delete_category"
       THEN /\ categories' = {c \in categories :
                                ~(c.id = proc[p].id /\ c.user_id = proc[p].user_id)}
            /\ UNCHANGED accounts
       ELSE /\ accounts' = {a \in accounts :
                              ~(a.id = proc[p].id /\ a.user_id = proc[p].user_id)}
            /\ UNCHANGED categories
    /\ proc' = [proc EXCEPT ![p] = Waiting]
    /\ op' = [name |-> proc[p].kind, process |-> p, id |-> proc[p].id,
              user_id |-> proc[p].user_id, row_name |-> proc[p].row_name,
              returned |-> TRUE]
    /\ UNCHANGED <<tie, obj, ret, income, expenses, seq, users, tokens, SESSIONS,
                   attempts, feedback_attempts, served, tz, now>>

\* add_expense: INSERT INTO expenses (...)
add_expense_insert(p, user_id, category, account) ==
    /\ proc[p].pc = "idle"
    /\ ~RaceLocked
    /\ seq.expenses < MaxRaceExpenses
    /\ proc' = [proc EXCEPT ![p] = [pc |-> "inserted", user_id |-> user_id,
                                    category |-> category, account |-> account]]
    /\ op' = [name |-> "INSERT", process |-> p]
    /\ UNCHANGED <<tie, obj, ret, income, expenses, seq, categories, accounts, users,
                   tokens, SESSIONS, attempts, feedback_attempts, served, tz, now>>

\* add_expense: conn.commit()
add_expense_commit(p) ==
    /\ proc[p].pc = "inserted"
    /\ LET added == db_add_expense(expenses, seq.expenses, proc[p].user_id, "Udgift",
                                   proc[p].category, 100000, "monthly",
                                   proc[p].account, None_months)
       IN  /\ expenses' = added.expenses
           /\ seq' = [seq EXCEPT !.expenses = added.last_id]
           /\ op' = [name |-> "add_expense", process |-> p, returned |-> added.last_id]
    /\ proc' = [proc EXCEPT ![p] = Waiting]
    /\ UNCHANGED <<tie, obj, ret, income, categories, accounts, users, tokens, SESSIONS,
                   attempts, feedback_attempts, served, tz, now>>

\* update_expense: UPDATE expenses SET ... WHERE id = ? AND user_id = ?
update_expense_update(p, expense_id, user_id, category, account) ==
    /\ proc[p].pc = "idle"
    /\ ~RaceLocked
    /\ proc' = [proc EXCEPT ![p] = [pc |-> "updated", id |-> expense_id,
                                    user_id |-> user_id, category |-> category,
                                    account |-> account]]
    /\ op' = [name |-> "UPDATE", process |-> p]
    /\ UNCHANGED <<tie, obj, ret, income, expenses, seq, categories, accounts, users,
                   tokens, SESSIONS, attempts, feedback_attempts, served, tz, now>>

\* update_expense: conn.commit()
update_expense_commit(p) ==
    /\ proc[p].pc = "updated"
    /\ expenses' = db_update_expense(expenses, proc[p].id, proc[p].user_id, "Udgift",
                                     proc[p].category, 100000, "monthly",
                                     proc[p].account, None_months).expenses
    /\ op' = [name |-> "update_expense", process |-> p, id |-> proc[p].id]
    /\ proc' = [proc EXCEPT ![p] = Waiting]
    /\ UNCHANGED <<tie, obj, ret, income, seq, categories, accounts, users, tokens,
                   SESSIONS, attempts, feedback_attempts, served, tz, now>>

\* user 1 has the category Bolig and the account Budget, and perhaps an expense in
\* the category Mad
InitRace ==
    /\ tie = [parity \in 0..1 |-> parity]
    /\ obj = [amount |-> 0, frequency |-> "monthly", months |-> None_months]
    /\ ret = <<>>
    /\ income = {}
    /\ \E n \in 0..1 :
          /\ expenses = {ExpenseRow(i, 1, "Udgift", "Mad", 100000, "monthly", None_months) :
                           i \in 1..n}
          /\ seq = [income |-> 0, expenses |-> n,
                    categories |-> Len(DEFAULT_CATEGORIES) + 2, accounts |-> 1]
    /\ op = NoCall
    /\ categories = InitCategories
                    \cup {CategoryRow(Len(DEFAULT_CATEGORIES) + 1, 1, "Bolig", "house"),
                          CategoryRow(Len(DEFAULT_CATEGORIES) + 2, 1, "Mad", "utensils")}
    /\ accounts = {AccountRow(1, 1, "Budget")}
    /\ users = {}
    /\ tokens = {}
    /\ SESSIONS = <<>>
    /\ attempts = <<>>
    /\ feedback_attempts = <<>>
    /\ served = <<>>
    /\ now = 0
    /\ tz = 0
    /\ proc = [p \in Processes |-> Waiting]

NextRace ==
    \/ \E p \in Processes :
          \/ delete_select(p, "delete_category", Len(DEFAULT_CATEGORIES) + 1, 1)
          \/ delete_select(p, "delete_account", 1, 1)
    \/ \E p \in Processes : delete_count(p)
    \/ \E p \in Processes : delete_delete(p)
    \/ \E p \in Processes : delete_commit(p)
    \/ \E p \in Processes, category \in {"Bolig", "Mad"}, account \in {NoAccount, "Budget"} :
          add_expense_insert(p, 1, category, account)
    \/ \E p \in Processes : add_expense_commit(p)
    \/ \E p \in Processes, id \in 1..MaxRaceExpenses, category \in {"Bolig", "Mad"},
          account \in {NoAccount, "Budget"} :
          update_expense_update(p, id, 1, category, account)
    \/ \E p \in Processes : update_expense_commit(p)

SpecRace == InitRace /\ [][NextRace]_vars

\* C27: under every interleaving with add_expense and update_expense,
\* delete_category and delete_account return True only if, when the row is
\* removed, no expense of the user uses the category or the account
C27_DeleteAtomic ==
    [][/\ op'.name \in {"delete_category", "delete_account"}
       /\ op'.returned
       => RaceUses(op'.name, op'.id, op'.row_name, op'.user_id) = {}
      ]_vars

----------------------------------------------------------------------------
(* The grand total of the grouped categories *)

\* C28: the values of the category_totals that chart_data returns sum to the same
\* amount as the totals of get_category_totals, whatever the labels of the
\* categories are, "Andet (samlet)" among them
C28_GroupingKeepsTotal ==
    Returned("chart_data") =>
        LET totals == get_category_totals(1, tie)
            shown == ret["chart_data"].category_totals
        IN  SumHundredths(shown, Keys(shown)) = SumHundredths(totals, Keys(totals))


----------------------------------------------------------------------------
(* The totals of the dashboard against the sums they stand for *)

RECURSIVE SumIncomeMonthly(_, _)
\* the decimal sum of monthly_amount over a list of incomes, in hundredths
SumIncomeMonthly(incomes, t) ==
    IF incomes = <<>> THEN 0
    ELSE Income_monthly_amount(Head(incomes), t) + SumIncomeMonthly(Tail(incomes), t)

\* the dashboard of a user who is logged in has been served
DashboardShown ==
    /\ op.name = "GET /budget/"
    /\ op.shown # <<>>
    /\ ~is_demo_mode(op.cookie)

(* C29: for every user and every set of stored expenses, total_expenses
   (get_total_monthly_expenses) equals the sum of get_category_totals over all
   categories, so the percentages total / total_expenses * 100 of the dashboard sum
   to 100 whenever total_expenses > 0; and total_income (get_total_income) equals the
   sum of monthly_amount over get_all_income. *)
C29_TotalsAgree ==
    DashboardShown =>
        LET page == op.shown[1]
            by_category == SumHundredths(page.category_totals, Keys(page.category_totals))
        IN  /\ page.total_expenses = by_category * Milli * Twelfth
            /\ page.total_expenses > 0 =>
                  by_category * Milli * Twelfth * 100 = 100 * page.total_expenses
            /\ page.total_income = SumIncomeMonthly(page.incomes, tie) * Milli * Twelfth


----------------------------------------------------------------------------
(* The lifetime of a reset token *)

\* the moment forgot_password issued the token: expires_at is the local time of that
\* moment plus one hour
IssuedAt(r) == r.expires_at - tz - Hour

(* C30: a reset token issued by forgot_password at time t expires after 1 hour,
   whatever the local time zone of the server: while it is unused and not superseded,
   get_valid_reset_token accepts it at every moment before t + 1 hour and rejects it
   at every moment after t + 1 hour. *)
C30_ExpiresAfterOneHour ==
    \A r \in tokens :
        ~r.used =>
            /\ now < IssuedAt(r) + Hour => get_valid_reset_token(r.token_hash) = {r}
            /\ now > IssuedAt(r) + Hour => get_valid_reset_token(r.token_hash) = {}

====
